---------------------------- MODULE Spec2Model ----------------------------
(***************************************************************************)
(* Model of the Lichess game analyzer backend (src/backend).               *)
(*                                                                         *)
(*   Spec          analyze_game: initial evaluation, replay of the moves   *)
(*                 to position keys, the semaphore-gated fan-out of        *)
(*                 fetch_cloud_eval calls collected by asyncio.gather,     *)
(*                 and the construction of the report.                     *)
(*   SpecDelta     calculate_evaluation_delta applied to a drawn pair of   *)
(*                 evaluations and a mover colour.                         *)
(*   SpecCategorize  categorize_move applied to two drawn delta pairs.     *)
(*   SpecCompose   categorize_move applied to the result of                *)
(*                 calculate_evaluation_delta.                             *)
(*   SpecFetch     fetch_cloud_eval against a scripted service.            *)
(*   SpecGame      fetch_game_data and the get_game endpoint.              *)
(*   SpecPgn       parse_pgn_moves applied to a drawn PGN text.            *)
(*   SpecComment   the two eval-comment parsers applied to an annotation.  *)
(*   SpecProgress  analyze_game called with a progress callback.           *)
(*   SpecGate      analyze_game in the calls where the semaphore gates.    *)
(*   SpecStats     categorize_move_from_evals applied to drawn dicts.      *)
(*   SpecEndpoint  the delta of GET /api/eval next to the calculator's.    *)
(*   SpecMcp       the MCP session module under concurrent callers, and    *)
(*                 the research endpoint.                                  *)
(*                                                                         *)
(* Python's Optional[T] is modelled as a sequence of length at most one:   *)
(* None is <<>> and a present value x is <<x>>.                            *)
(***************************************************************************)
EXTENDS Integers, Sequences, FiniteSets, TLC

VARIABLES
    token,            \* bool(LICHESS_API_TOKEN)
    progress_callback,\* analyze_game is given a progress callback
    progress_calls,   \* history: the arguments of the callback's invocations
    moves,            \* game_data.moves
    pc,               \* position of analyze_game
    initial_eval,     \* Optional: the initial-position evaluation
    fens_to_eval,     \* one Optional position key per move
    sem_value,        \* asyncio.Semaphore counter
    waiters,          \* FIFO of task indices blocked in semaphore.acquire
    phase,            \* per task: position inside fetch_with_progress
    results,          \* gather's result slots, Optional CloudEval each
    completed_count,  \* nonlocal completed_count
    fetched,          \* history: indices fetch_cloud_eval was called for (0 = initial)
    failed,           \* history: indices whose fetch finally failed (0 = initial)
    out_of_order,     \* history: some task finished before a lower-indexed one
    evaluations,      \* the report's Move Records
    report,           \* Optional: the aggregate counts of the report
    before_eval,      \* calculate_evaluation_delta harness: arguments
    after_eval,
    is_white_turn,
    delta,            \* Optional: its returned (delta_cp, delta_mate)
    cat_args,         \* categorize_move harness: argument pairs
    cat_results,      \* and the categories returned so far
    has_token,        \* fetch_cloud_eval: bool(LICHESS_API_TOKEN)
    max_retries,      \* fetch_cloud_eval: its argument
    responses,        \* the answer of the service to the 1st, 2nd, ... request
    attempt,          \* fetch_cloud_eval: the loop variable
    requests_sent,    \* history: number of client.get calls
    last_error,       \* fetch_cloud_eval: Optional last caught exception
    waits,            \* history: the asyncio.sleep durations, in half seconds
    fetch_pc,         \* position of fetch_cloud_eval
    fetch_outcome,    \* Optional: what fetch_cloud_eval returned or raised
    game_pc,          \* position of fetch_game_data and of get_game
    url_index,        \* fetch_game_data: index of `url` in pgn_urls
    game_attempt,     \* fetch_game_data: the loop variable `attempt`
    pgn_response,     \* fetch_game_data: Optional response
    game_log,         \* history: the requests sent and their answers
    game_error,       \* Optional: the type of the exception fetch_game_data raised
    http_status,      \* Optional: the status GET /api/game/{game_id} answers
    pgn_text,         \* parse_pgn_moves: its argument, a sequence of tokens
    primary_error,    \* Optional: the exception python-chess raises in it
    parse_result,     \* Optional: what parse_pgn_moves returned or raised
    eval_value,       \* the value v of the annotation [%eval v]
    stats_result,     \* Optional: what game_stats.parse_eval_comment returned
    parser_result,    \* Optional: what pgn_parser.parse_eval_from_comment returned
    stats_before_eval,\* categorize_move_from_evals: Optional dict before_eval
    stats_after_eval, \* categorize_move_from_evals: Optional dict after_eval
    stats_category,   \* Optional: the category it returned
    endpoint_delta,   \* Optional: (delta_cp, delta_mate) of GET /api/eval
    library_available,\* the mcp package was imported
    mcp_session,      \* Optional: _mcp_session, named by the caller that made it
    mcp_session_context, \* Optional: _mcp_session_context
    mcp_read_write,   \* Optional: _mcp_read_write
    mcp_client_context,  \* Optional: _mcp_client_context
    mcp_initialized,  \* _mcp_initialized
    handshake,        \* per session: state of its initialize() request
    callers,          \* per caller: kind, position, locals and result
    research_game     \* the moves of the game and the ply of the research requests

analyze_vars == <<token, progress_callback, progress_calls, moves, pc, initial_eval, fens_to_eval, sem_value, waiters,
                  phase, results, completed_count, fetched, failed, out_of_order,
                  evaluations, report>>
delta_vars == <<before_eval, after_eval, is_white_turn, delta>>
cat_vars == <<cat_args, cat_results>>
fetch_vars == <<has_token, max_retries, responses, attempt, requests_sent, last_error,
                waits, fetch_pc, fetch_outcome>>
game_vars == <<game_pc, url_index, game_attempt, pgn_response, game_log, game_error,
               http_status>>
pgn_vars == <<pgn_text, primary_error, parse_result>>
comment_vars == <<eval_value, stats_result, parser_result>>
stats_vars == <<stats_before_eval, stats_after_eval, stats_category>>
endpoint_vars == <<endpoint_delta>>
mcp_vars == <<library_available, mcp_session, mcp_session_context, mcp_read_write,
              mcp_client_context, mcp_initialized, handshake, callers, research_game>>
extra_vars == <<stats_vars, endpoint_vars, mcp_vars>>
late_vars == <<game_vars, pgn_vars, comment_vars, extra_vars>>
aux_vars == <<fetch_vars, late_vars>>
vars == <<analyze_vars, delta_vars, cat_vars, aux_vars>>

---------------------------------------------------------------------------
(* Bounds *)

\* every list of at most MaxMoves tokens is an input game
MaxMoves == 4

\* so is the long game: LongMoves legal moves (more than the permits of the
\* gate without a token) and one unparseable token after the first of them
LongMoves == 6

\* fetch_cloud_eval is called with max_retries in 1..MaxRetries
MaxRetries == 3

\* the longest body of the PGN texts parse_pgn_moves is applied to
MaxPgnLen == 4

\* the number of concurrent callers of the MCP session module
MaxCallers == 2

\* an annotation value has a whole part in 0..MaxWhole and at most
\* MaxFracLen digits after its decimal point
MaxWhole == 2
MaxFracLen == 3

---------------------------------------------------------------------------
(* Optional values *)

None == <<>>
Some(x) == <<x>>
IsNone(o) == o = <<>>
Get(o) == o[1]

\* fetch_cloud_eval is not running
FetchIdle ==
    /\ has_token = FALSE
    /\ max_retries = 0
    /\ responses = <<>>
    /\ attempt = 0
    /\ requests_sent = 0
    /\ last_error = None
    /\ waits = <<>>
    /\ fetch_pc = "idle"
    /\ fetch_outcome = None

\* fetch_game_data is not running
GameIdle ==
    /\ game_pc = "idle"
    /\ url_index = 0
    /\ game_attempt = 0
    /\ pgn_response = None
    /\ game_log = <<>>
    /\ game_error = None
    /\ http_status = None

\* parse_pgn_moves is not running
PgnIdle ==
    /\ pgn_text = <<>>
    /\ primary_error = None
    /\ parse_result = None

\* the eval-comment parsers are not running
CommentIdle ==
    /\ eval_value = None
    /\ stats_result = None
    /\ parser_result = None

\* categorize_move_from_evals is not running
StatsIdle ==
    /\ stats_before_eval = None
    /\ stats_after_eval = None
    /\ stats_category = None

\* get_evaluation has not computed a delta
EndpointIdle == endpoint_delta = None

\* mcp_research is freshly imported and nothing calls it
McpIdle ==
    /\ library_available = FALSE
    /\ mcp_session = None
    /\ mcp_session_context = None
    /\ mcp_read_write = None
    /\ mcp_client_context = None
    /\ mcp_initialized = FALSE
    /\ handshake = <<>>
    /\ callers = <<>>
    /\ research_game = <<>>

ExtraIdle == StatsIdle /\ EndpointIdle /\ McpIdle

LateIdle == GameIdle /\ PgnIdle /\ CommentIdle /\ ExtraIdle

AuxIdle == FetchIdle /\ LateIdle

---------------------------------------------------------------------------
(* models.py *)

CloudEval(fen, cp, mate, depth, nodes, pv) ==
    [fen |-> fen, cp |-> cp, mate |-> mate, depth |-> depth, nodes |-> nodes, pv |-> pv]

MoveEvaluation(ply, move, player, before, after, delta_cp, delta_mate, category, best_move) ==
    [ply |-> ply, move |-> move, player |-> player, before_eval |-> before,
     after_eval |-> after, delta_cp |-> delta_cp, delta_mate |-> delta_mate,
     category |-> category, best_move |-> best_move]

---------------------------------------------------------------------------
(* analyzer.py: categorize_move *)

\* a faulty variant of abs: the sign of the delta is kept
SignedMagnitude(x) == x

\* Python's abs
abs(x) == IF x < 0 THEN -x ELSE x

\* a faulty variant of MateCategory: the sign convention is reversed
MateCategoryReversed(delta_mate) ==
    IF delta_mate > 0 THEN "blunder"
    ELSE IF delta_mate < 0 THEN "good"
    ELSE "accurate"

\* lines 21-28: the category of a mate-denominated delta
MateCategory(delta_mate) ==
    IF delta_mate < 0 THEN "blunder"
    ELSE IF delta_mate > 0 THEN "good"
    ELSE "accurate"

\* a faulty variant of CpCategory: the first boundary is inclusive
CpCategoryInclusive(abs_delta) ==
    IF abs_delta <= 10 THEN "accurate"
    ELSE IF abs_delta < 50 THEN "good"
    ELSE IF abs_delta < 100 THEN "inaccuracy"
    ELSE IF abs_delta < 300 THEN "mistake"
    ELSE "blunder"

\* lines 35-44: the category of a centipawn magnitude
CpCategory(abs_delta) ==
    IF abs_delta < 10 THEN "accurate"
    ELSE IF abs_delta < 50 THEN "good"
    ELSE IF abs_delta < 100 THEN "inaccuracy"
    ELSE IF abs_delta < 300 THEN "mistake"
    ELSE "blunder"

categorize_move(delta_cp, delta_mate) ==
    IF ~IsNone(delta_mate) THEN MateCategory(Get(delta_mate))
    ELSE IF IsNone(delta_cp) THEN "accurate"
    ELSE LET abs_delta == abs(Get(delta_cp)) IN CpCategory(abs_delta)

---------------------------------------------------------------------------
(* analyzer.py: calculate_evaluation_delta *)

\* `x or 0` on an Optional[int]
OrZero(o) == IF IsNone(o) \/ Get(o) = 0 THEN 0 ELSE Get(o)

\* a faulty variant of MateDelta: a lost mate is reported like one that never was
MateDeltaLostIsNull(before_mate, after_mate) ==
    IF IsNone(before_mate) /\ ~IsNone(after_mate)
    THEN [delta_cp |-> None, delta_mate |-> Some(Get(after_mate))]
    ELSE IF ~IsNone(before_mate) /\ ~IsNone(after_mate)
    THEN [delta_cp |-> None, delta_mate |-> Some(Get(after_mate) - Get(before_mate))]
    ELSE [delta_cp |-> None, delta_mate |-> None]

\* lines 56-72: the mate-denominated delta
MateDelta(before_mate, after_mate) ==
    IF IsNone(before_mate) /\ ~IsNone(after_mate)
    THEN [delta_cp |-> None, delta_mate |-> Some(Get(after_mate))]
    ELSE IF ~IsNone(before_mate) /\ IsNone(after_mate)
    THEN [delta_cp |-> None, delta_mate |-> Some(-999)]
    ELSE IF ~IsNone(before_mate) /\ ~IsNone(after_mate)
    THEN [delta_cp |-> None, delta_mate |-> Some(Get(after_mate) - Get(before_mate))]
    ELSE [delta_cp |-> None, delta_mate |-> None]

\* a faulty variant of CpDelta: the sign is not reversed for Black
CpDeltaNoFlip(before_cp_opt, after_cp_opt, white) ==
    [delta_cp |-> Some(OrZero(after_cp_opt) - OrZero(before_cp_opt)), delta_mate |-> None]

\* a faulty variant of CpDelta: a missing centipawn value is not read as 0
CpDeltaMissing(before_cp_opt, after_cp_opt, white) ==
    IF IsNone(before_cp_opt) \/ IsNone(after_cp_opt)
    THEN [delta_cp |-> None, delta_mate |-> None]
    ELSE IF white
    THEN [delta_cp |-> Some(Get(after_cp_opt) - Get(before_cp_opt)), delta_mate |-> None]
    ELSE [delta_cp |-> Some(Get(before_cp_opt) - Get(after_cp_opt)), delta_mate |-> None]

\* lines 75-84: the centipawn delta
CpDelta(before_cp_opt, after_cp_opt, white) ==
    LET before_cp == OrZero(before_cp_opt)
        after_cp == OrZero(after_cp_opt)
    IN  IF white
        THEN [delta_cp |-> Some(after_cp - before_cp), delta_mate |-> None]
        ELSE [delta_cp |-> Some(before_cp - after_cp), delta_mate |-> None]

calculate_evaluation_delta(before, after, white) ==
    IF ~IsNone(before.mate) \/ ~IsNone(after.mate)
    THEN MateDelta(before.mate, after.mate)
    ELSE CpDelta(before.cp, after.cp, white)

---------------------------------------------------------------------------
(* python-chess, as analyze_game uses it.  A board is the sequence of the   *)
(* moves pushed so far; its position key (FEN) identifies it.  The SAN      *)
(* tokens of the model: "e4" parses only with White to move, "e5" only with *)
(* Black to move, "Zz" never parses.                                        *)

SanTokens == {"e4", "e5", "Zz"}

StartBoard == <<>>

WhiteToMove(board) == Len(board) % 2 = 0

\* board.parse_san(move_san) succeeds
Legal(board, move_san) ==
    \/ move_san = "e4" /\ WhiteToMove(board)
    \/ move_san = "e5" /\ ~WhiteToMove(board)

\* board.push(move)
Push(board, move_san) == Append(board, move_san)

\* board.fen()
Fen(board) == Some(board)

---------------------------------------------------------------------------
(* lichess_api.py: fetch_cloud_eval, as seen by its caller: it returns a    *)
(* CloudEval for the position or raises.  An error is one of "429" (rate    *)
(* limit exceeded), "404" (cloud eval not available) and "error" (any       *)
(* other HTTP or transport failure).  The cloud database stores one         *)
(* evaluation per position; whether a fetch of it succeeds is not           *)
(* determined.                                                              *)

ServiceEvals(fen) ==
    LET n == IF IsNone(fen) THEN 0 ELSE Len(Get(fen)) IN
    IF n % 3 = 0 THEN { CloudEval(fen, Some(30), None, 20, 1000, <<"e4", "e5">>) }
    ELSE IF n % 3 = 1 THEN { CloudEval(fen, Some(-120), None, 20, 1000, <<"e5">>) }
    ELSE { CloudEval(fen, None, Some(2), 20, 1000, <<>>) }

ErrorKinds == {"429", "404", "error"}

Outcomes(fen) ==
    { [kind |-> "ok", eval |-> e] : e \in ServiceEvals(fen) }
    \cup { [kind |-> k, eval |-> CloudEval(fen, None, None, 0, 0, <<>>)] : k \in ErrorKinds }

---------------------------------------------------------------------------
(* analyzer.py: analyze_game *)

\* the CloudEval substituted for a failed fetch
Placeholder(fen) == CloudEval(fen, Some(0), None, 0, 0, <<>>)

\* the CloudEval returned for a null position key (fen="")
EmptyPlaceholder == CloudEval(None, Some(0), None, 0, 0, <<>>)

\* first loop: replay the moves on board_copy, one position key per move
RECURSIVE ReplayFens(_, _, _)
ReplayFens(mv, i, board_copy) ==
    IF i > Len(mv) THEN <<>>
    ELSE IF Legal(board_copy, mv[i])
         THEN <<Fen(Push(board_copy, mv[i]))>> \o ReplayFens(mv, i + 1, Push(board_copy, mv[i]))
         ELSE <<None>> \o ReplayFens(mv, i + 1, board_copy)

max_concurrent(tok) == IF tok THEN 20 ELSE 5

\* a faulty variant of CanAcquire: one permit too many
CanAcquireOffByOne(value, queue) == value >= 0

\* asyncio.Semaphore.acquire returns without waiting
CanAcquire(value, queue) == value > 0

\* what fetch_with_semaphore does with an exception of the first fetch
FirstErrorHandling(kind) == IF kind = "429" THEN "retry" ELSE "placeholder"

\* a faulty variant of RetryErrorHandling: the retry is not guarded
RetryErrorUnguarded(kind) == "raise"

\* what fetch_with_semaphore does with an exception of the retry
RetryErrorHandling(kind) == "placeholder"

\* what analyze_game does with an exception of the initial fetch
InitialErrorHandling(kind) == "placeholder"

\* a faulty variant of ResultSlot: results are collected as they complete
ResultSlotByCompletion(index, completed) == completed

\* asyncio.gather: the slot of the returned list the result of task number
\* index goes to, when it is the completed-th task to finish
ResultSlot(index, completed) == index

\* a faulty variant of SkipsFetch: a null position key is fetched like any other
SkipsFetchNever(fen) == FALSE

\* fetch_with_semaphore: a null position key is not fetched
SkipsFetch(fen) == IsNone(fen)

Fan == [phase |-> phase, results |-> results, sem_value |-> sem_value,
        waiters |-> waiters, completed_count |-> completed_count,
        fetched |-> fetched, failed |-> failed, out_of_order |-> out_of_order,
        progress_calls |-> progress_calls]

SetFan(f) ==
    /\ phase' = f.phase
    /\ results' = f.results
    /\ sem_value' = f.sem_value
    /\ waiters' = f.waiters
    /\ completed_count' = f.completed_count
    /\ fetched' = f.fetched
    /\ failed' = f.failed
    /\ out_of_order' = f.out_of_order
    /\ progress_calls' = f.progress_calls

\* line 217: int((completed_count / total_count) * 100)
Progress(completed, total) == (completed * 100) \div total

\* a faulty variant of NotifiesProgress: skipped positions are not reported
NotifiesProgressFetchedOnly(callback, fen) == callback /\ ~IsNone(fen)

\* line 216: the callback, when given, is invoked for every position
NotifiesProgress(callback, fen) == callback

\* fetch_with_progress of task i returns e: completed_count += 1, the callback
\* is invoked and gather stores e
Resolve(f, i, e) ==
    [f EXCEPT !.phase[i] = "done",
              !.results[ResultSlot(i, f.completed_count + 1)] = Some(e),
              !.completed_count = @ + 1,
              !.progress_calls =
                  IF NotifiesProgress(progress_callback, fens_to_eval[i])
                  THEN Append(@, [percent |-> Progress(f.completed_count + 1,
                                                       Len(fens_to_eval)),
                                  completed |-> f.completed_count + 1,
                                  total |-> Len(fens_to_eval)])
                  ELSE @,
              !.out_of_order = @ \/ (f.phase[i] # "created"
                                     /\ \E j \in 1..(i - 1) : f.phase[j] # "done")]

\* a faulty variant of Release: the permit is not given back
ReleaseKeepsPermit(f) == f

\* leaving `async with semaphore`
Release(f) == [f EXCEPT !.sem_value = @ + 1]

\* entering `async with semaphore` and calling fetch_cloud_eval
Acquire(f, i) ==
    [f EXCEPT !.sem_value = @ - 1,
              !.waiters = SelectSeq(@, LAMBDA j : j # i),
              !.phase[i] = "fetching",
              !.fetched = @ \cup {i}]

\* a task of gather runs up to its first suspension
StartTask(f, i) ==
    IF SkipsFetch(fens_to_eval[i])
    THEN Resolve(f, i, EmptyPlaceholder)
    ELSE IF CanAcquire(f.sem_value, f.waiters)
         THEN Acquire(f, i)
         ELSE [f EXCEPT !.waiters = Append(@, i), !.phase[i] = "waiting"]

RECURSIVE StartTasks(_, _)
StartTasks(f, i) ==
    IF i > Len(fens_to_eval) THEN f ELSE StartTasks(StartTask(f, i), i + 1)

\* the failed fetch of task i is replaced by the placeholder
Substitute(f, i) ==
    Resolve(Release([f EXCEPT !.failed = @ \cup {i}]), i, Placeholder(fens_to_eval[i]))

\* the exception leaves fetch_with_semaphore and gather
Propagate(f, i) ==
    Release([f EXCEPT !.failed = @ \cup {i}, !.phase[i] = "raised"])

Raised(f) == \E i \in DOMAIN f.phase : f.phase[i] = "raised"

\* extraction of the best move from the post-move principal variation
BestMove(board, pv) ==
    IF pv # <<>> /\ Legal(board, pv[1]) THEN Some(pv[1]) ELSE None

\* a faulty variant of PreviousAfterSkip: a skipped move advances the chain
PreviousAfterSkipAdvances(previous_eval, after) == after

\* lines 274-276: a move that fails to parse leaves previous_eval as it was
PreviousAfterSkip(previous_eval, after) == previous_eval

\* second loop: one iteration for move number ply
WalkMove(acc, ply, move_san, after) ==
    IF ~Legal(acc.board, move_san)
    THEN [acc EXCEPT !.previous_eval = PreviousAfterSkip(@, after)]
    ELSE LET board == Push(acc.board, move_san)
             d == calculate_evaluation_delta(acc.previous_eval, after, acc.is_white)
             category == categorize_move(d.delta_cp, d.delta_mate)
             rec == MoveEvaluation(ply, move_san,
                                   IF acc.is_white THEN "white" ELSE "black",
                                   acc.previous_eval, after, d.delta_cp, d.delta_mate,
                                   category, BestMove(board, after.pv))
         IN  [board |-> board, previous_eval |-> after, is_white |-> ~acc.is_white,
              evaluations |-> Append(acc.evaluations, rec)]

Min(a, b) == IF a < b THEN a ELSE b

RECURSIVE Walk(_, _, _, _)
Walk(acc, ply, mv, after_evals) ==
    IF ply > Min(Len(mv), Len(after_evals)) THEN acc
    ELSE Walk(WalkMove(acc, ply, mv[ply], after_evals[ply]), ply + 1, mv, after_evals)

\* a faulty variant of Count: the records of both players are counted
CountEitherPlayer(evs, player, cats) ==
    Cardinality({k \in 1..Len(evs) : evs[k].category \in cats})

\* lines 279-282: sum(1 for e in evaluations if e.player == ... and e.category ...)
Count(evs, player, cats) ==
    Cardinality({k \in 1..Len(evs) : evs[k].player = player /\ evs[k].category \in cats})

AnalysisReport(evs) ==
    [total_moves |-> Len(evs),
     white_mistakes |-> Count(evs, "white", {"mistake", "blunder"}),
     black_mistakes |-> Count(evs, "black", {"mistake", "blunder"}),
     white_blunders |-> Count(evs, "white", {"blunder"}),
     black_blunders |-> Count(evs, "black", {"blunder"})]

Tasks == 1..Len(phase)

InFlight == {i \in Tasks : phase[i] \in {"fetching", "sleeping", "retrying"}}

---------------------------------------------------------------------------
(* analyze_game: actions *)

LongGame(n) == <<"e4", "Zz">> \o [i \in 1..(n - 1) |-> IF i % 2 = 1 THEN "e5" ELSE "e4"]

MoveLists ==
    UNION { [1..n -> SanTokens] : n \in 0..MaxMoves } \cup { LongGame(LongMoves) }

DeltaIdle ==
    /\ before_eval = None
    /\ after_eval = None
    /\ is_white_turn = TRUE
    /\ delta = None

CatIdle ==
    /\ cat_args = <<>>
    /\ cat_results = <<>>

\* line 135: analyze_game(game_data, progress_callback) is called
AnalyzeCall(callback) ==
    /\ token \in BOOLEAN
    /\ progress_callback = callback
    /\ progress_calls = <<>>
    /\ moves \in MoveLists
    /\ pc = "initial"
    /\ initial_eval = None
    /\ fens_to_eval = <<>>
    /\ sem_value = 0
    /\ waiters = <<>>
    /\ phase = <<>>
    /\ results = <<>>
    /\ completed_count = 0
    /\ fetched = {}
    /\ failed = {}
    /\ out_of_order = FALSE
    /\ evaluations = <<>>
    /\ report = None

\* the call with the default argument progress_callback=None
AnalyzeInit == AnalyzeCall(FALSE)

Init == AnalyzeInit /\ DeltaIdle /\ CatIdle /\ AuxIdle

\* the call with a progress callback
ProgressInit == AnalyzeCall(TRUE) /\ DeltaIdle /\ CatIdle /\ AuxIdle

\* lines 141-168: the initial fetch resolves, then the moves are replayed
FetchInitialEval ==
    /\ pc = "initial"
    /\ \E out \in Outcomes(Fen(StartBoard)) :
         /\ fetched' = fetched \cup {0}
         /\ IF out.kind = "ok"
            THEN /\ initial_eval' = Some(out.eval)
                 /\ failed' = failed
                 /\ pc' = "prepared"
            ELSE /\ failed' = failed \cup {0}
                 /\ IF InitialErrorHandling(out.kind) = "placeholder"
                    THEN /\ initial_eval' = Some(Placeholder(Fen(StartBoard)))
                         /\ pc' = "prepared"
                    ELSE /\ initial_eval' = initial_eval
                         /\ pc' = "raised"
    /\ fens_to_eval' = ReplayFens(moves, 1, StartBoard)
    /\ UNCHANGED <<token, progress_callback, progress_calls, moves, sem_value, waiters,
                   phase, results, completed_count, out_of_order, evaluations, report>>
    /\ UNCHANGED <<delta_vars, cat_vars, aux_vars>>

\* lines 175-221: the semaphore is created and gather starts every task
StartFanOut ==
    /\ pc = "prepared"
    /\ LET n == Len(fens_to_eval)
           f0 == [Fan EXCEPT !.phase = [i \in 1..n |-> "created"],
                             !.results = [i \in 1..n |-> None],
                             !.sem_value = max_concurrent(token),
                             !.waiters = <<>>,
                             !.completed_count = 0]
       IN  SetFan(StartTasks(f0, 1))
    /\ pc' = "gather"
    /\ UNCHANGED <<token, progress_callback, moves, initial_eval, fens_to_eval,
                   evaluations, report>>
    /\ UNCHANGED <<delta_vars, cat_vars, aux_vars>>

\* a task blocked in semaphore.acquire is woken and calls fetch_cloud_eval
Admit(i) ==
    /\ pc = "gather"
    /\ waiters # <<>>
    /\ Head(waiters) = i
    /\ CanAcquire(sem_value, <<>>)
    /\ SetFan(Acquire(Fan, i))
    /\ UNCHANGED <<token, progress_callback, moves, pc, initial_eval, fens_to_eval,
                   evaluations, report>>
    /\ UNCHANGED <<delta_vars, cat_vars, aux_vars>>

\* lines 184-203: the first fetch_cloud_eval of task i returns or raises
FetchRespond(i) ==
    /\ pc = "gather"
    /\ phase[i] = "fetching"
    /\ \E out \in Outcomes(fens_to_eval[i]) :
         IF out.kind = "ok"
         THEN SetFan(Resolve(Release(Fan), i, out.eval))
         ELSE IF FirstErrorHandling(out.kind) = "retry"
              THEN SetFan([Fan EXCEPT !.phase[i] = "sleeping"])
              ELSE SetFan(Substitute(Fan, i))
    /\ UNCHANGED <<token, progress_callback, moves, pc, initial_eval, fens_to_eval,
                   evaluations, report>>
    /\ UNCHANGED <<delta_vars, cat_vars, aux_vars>>

\* lines 193-196: asyncio.sleep(0.5) ends and the fetch is retried
SleepWake(i) ==
    /\ pc = "gather"
    /\ phase[i] = "sleeping"
    /\ SetFan([Fan EXCEPT !.phase[i] = "retrying"])
    /\ UNCHANGED <<token, progress_callback, moves, pc, initial_eval, fens_to_eval,
                   evaluations, report>>
    /\ UNCHANGED <<delta_vars, cat_vars, aux_vars>>

\* lines 195-203: the retried fetch_cloud_eval returns or raises
RetryRespond(i) ==
    /\ pc = "gather"
    /\ phase[i] = "retrying"
    /\ \E out \in Outcomes(fens_to_eval[i]) :
         LET f == IF out.kind = "ok" THEN Resolve(Release(Fan), i, out.eval)
                  ELSE IF RetryErrorHandling(out.kind) = "placeholder"
                       THEN Substitute(Fan, i)
                       ELSE Propagate(Fan, i)
         IN  /\ SetFan(f)
             /\ pc' = IF Raised(f) THEN "raised" ELSE pc
    /\ UNCHANGED <<token, progress_callback, moves, initial_eval, fens_to_eval,
                   evaluations, report>>
    /\ UNCHANGED <<delta_vars, cat_vars, aux_vars>>

\* lines 221-294: gather returns, the moves are walked and the report is built
GatherReturn ==
    /\ pc = "gather"
    /\ \A i \in Tasks : phase[i] = "done"
    /\ LET after_evals == [i \in Tasks |-> IF IsNone(results[i]) THEN EmptyPlaceholder
                                           ELSE Get(results[i])]
           acc0 == [board |-> StartBoard, previous_eval |-> Get(initial_eval),
                    is_white |-> TRUE, evaluations |-> <<>>]
           acc == Walk(acc0, 1, moves, after_evals)
       IN  /\ evaluations' = acc.evaluations
           /\ report' = Some(AnalysisReport(acc.evaluations))
    /\ pc' = "done"
    /\ UNCHANGED <<token, progress_callback, progress_calls, moves, initial_eval,
                   fens_to_eval, sem_value, waiters, phase, results, completed_count,
                   fetched, failed, out_of_order>>
    /\ UNCHANGED <<delta_vars, cat_vars, aux_vars>>

Next ==
    \/ FetchInitialEval
    \/ StartFanOut
    \/ \E i \in Tasks : Admit(i)
    \/ \E i \in Tasks : FetchRespond(i)
    \/ \E i \in Tasks : SleepWake(i)
    \/ \E i \in Tasks : RetryRespond(i)
    \/ GatherReturn

Spec == Init /\ [][Next]_vars

SpecProgress == ProgressInit /\ [][Next]_vars

\* the calls in which the gate matters: every game without a token (limit 5),
\* the games of at most MaxMoves moves with a token (limit 20)
GateInit == Init /\ (token => moves # LongGame(LongMoves))

SpecGate == GateInit /\ [][Next]_vars

---------------------------------------------------------------------------
(* calculate_evaluation_delta applied to drawn arguments *)

AnalyzeIdle ==
    /\ token = FALSE
    /\ progress_callback = FALSE
    /\ progress_calls = <<>>
    /\ moves = <<>>
    /\ pc = "idle"
    /\ initial_eval = None
    /\ fens_to_eval = <<>>
    /\ sem_value = 0
    /\ waiters = <<>>
    /\ phase = <<>>
    /\ results = <<>>
    /\ completed_count = 0
    /\ fetched = {}
    /\ failed = {}
    /\ out_of_order = FALSE
    /\ evaluations = <<>>
    /\ report = None

CpSamples == {None} \cup { Some(x) : x \in {-200, -120, 0, 20, 50, 150} }

MateSamples == {None} \cup { Some(x) : x \in {-2, 0, 3} }

EvalSamples ==
    { CloudEval(None, cp, mate, 20, 1000, <<>>) : cp \in CpSamples, mate \in MateSamples }

DeltaInit ==
    /\ AnalyzeIdle
    /\ CatIdle
    /\ AuxIdle
    /\ before_eval \in { Some(e) : e \in EvalSamples }
    /\ after_eval \in { Some(e) : e \in EvalSamples }
    /\ is_white_turn \in BOOLEAN
    /\ delta = None

CalculateDelta ==
    /\ IsNone(delta)
    /\ ~IsNone(before_eval)
    /\ delta' = Some(calculate_evaluation_delta(Get(before_eval), Get(after_eval),
                                                is_white_turn))
    /\ UNCHANGED <<before_eval, after_eval, is_white_turn>>
    /\ UNCHANGED <<analyze_vars, cat_vars, aux_vars>>

DeltaNext == CalculateDelta

SpecDelta == DeltaInit /\ [][DeltaNext]_vars

---------------------------------------------------------------------------
(* analyze_game, lines 234-239: categorize_move applied to the result of    *)
(* calculate_evaluation_delta                                               *)

CategorizeDelta ==
    /\ ~IsNone(delta)
    /\ cat_results = <<>>
    /\ cat_results' = <<categorize_move(Get(delta).delta_cp, Get(delta).delta_mate)>>
    /\ UNCHANGED cat_args
    /\ UNCHANGED <<analyze_vars, delta_vars, aux_vars>>

ComposeNext == CalculateDelta \/ CategorizeDelta

SpecCompose == DeltaInit /\ [][ComposeNext]_vars

---------------------------------------------------------------------------
(* categorize_move applied to two drawn argument pairs *)

DeltaCpSamples ==
    {None} \cup { Some(x) : x \in {0, 1, 9, 10, 11, 49, 50, 51, 99, 100, 101, 299, 300, 301} }
    \cup { Some(-x) : x \in {1, 9, 10, 11, 49, 50, 51, 99, 100, 101, 299, 300, 301} }

DeltaMateSamples == {None} \cup { Some(x) : x \in {-999, -1, 0, 1, 3} }

CatArgs ==
    { [delta_cp |-> c, delta_mate |-> m] : c \in DeltaCpSamples, m \in DeltaMateSamples }

CatInit ==
    /\ AnalyzeIdle
    /\ DeltaIdle
    /\ AuxIdle
    /\ cat_args \in { <<a, b>> : a \in CatArgs, b \in { x \in CatArgs : IsNone(x.delta_mate) } }
    /\ cat_results = <<>>

Categorize ==
    /\ Len(cat_results) < Len(cat_args)
    /\ LET a == cat_args[Len(cat_results) + 1]
       IN  cat_results' = Append(cat_results, categorize_move(a.delta_cp, a.delta_mate))
    /\ UNCHANGED cat_args
    /\ UNCHANGED <<analyze_vars, delta_vars, aux_vars>>

CatNext == Categorize

SpecCategorize == CatInit /\ [][CatNext]_vars

---------------------------------------------------------------------------
(* lichess_api.py: fetch_cloud_eval, one call against a scripted service.   *)
(* A response is "200" (a 2xx answer with an evaluation), "404", "429",     *)
(* "500" (any other non-2xx status) or "transport" (client.get raises).     *)

ResponseKinds == {"200", "404", "429", "500", "transport"}

RECURSIVE Pow2(_)
Pow2(n) == IF n = 0 THEN 1 ELSE 2 * Pow2(n - 1)

\* line 824: the wait before the retry of a rate-limited request
RateLimitWait(tok, att) == IF tok THEN att + 1 ELSE 2 * (Pow2(att) + 1)

\* lines 839, 846: the wait before the retry of a failed request
ErrorWait(att) == 2 * Pow2(att)

\* a faulty variant of RateLimitRetries: the last attempt waits as well
RateLimitRetriesAlways(att, m) == TRUE

\* line 823: a 429 is followed by a wait and another attempt
RateLimitRetries(att, m) == att < m - 1

\* a faulty variant of ErrorRetries: the last attempt waits as well
ErrorRetriesAlways(att, m) == TRUE

\* lines 838, 845: a caught exception is followed by a wait and another attempt
ErrorRetries(att, m) == att < m - 1

\* lines 817-833: what the body of the try does with a response: it breaks
\* out of the loop with the data, sleeps and continues, or raises
TryBody(kind, att, m) ==
    IF kind = "transport" THEN [act |-> "raise", error |-> "transport"]
    ELSE IF kind = "404" THEN [act |-> "raise", error |-> "unavailable"]
    ELSE IF kind = "429"
         THEN IF RateLimitRetries(att, m) THEN [act |-> "sleep", error |-> "none"]
              ELSE [act |-> "raise", error |-> "rate_limit"]
    ELSE IF kind = "200" THEN [act |-> "break", error |-> "none"]
    ELSE [act |-> "raise", error |-> "http_status"]

FetchInit ==
    /\ AnalyzeIdle
    /\ DeltaIdle
    /\ CatIdle
    /\ LateIdle
    /\ has_token \in BOOLEAN
    /\ max_retries \in 1..MaxRetries
    /\ responses \in [1..(max_retries + 1) -> ResponseKinds]
    /\ attempt = 0
    /\ requests_sent = 0
    /\ last_error = None
    /\ waits = <<>>
    /\ fetch_pc = "loop"
    /\ fetch_outcome = None

\* lines 812-815: the loop body starts and the request is sent
SendRequest ==
    /\ fetch_pc = "loop"
    /\ requests_sent < Len(responses)
    /\ requests_sent' = requests_sent + 1
    /\ fetch_pc' = "awaiting"
    /\ UNCHANGED <<has_token, max_retries, responses, attempt, last_error, waits,
                   fetch_outcome>>
    /\ UNCHANGED <<analyze_vars, delta_vars, cat_vars, late_vars>>

\* lines 815-849: the answer arrives; the call returns, raises or sleeps
ReceiveResponse ==
    /\ fetch_pc = "awaiting"
    /\ LET kind == responses[requests_sent]
           body == TryBody(kind, attempt, max_retries)
       IN  IF body.act = "break"
           THEN /\ fetch_pc' = "returned"
                /\ fetch_outcome' = Some([returned |-> TRUE, response |-> requests_sent,
                                          error |-> "none"])
                /\ UNCHANGED <<last_error, waits>>
           ELSE IF body.act = "sleep"
           THEN /\ fetch_pc' = "sleeping"
                /\ waits' = Append(waits, RateLimitWait(has_token, attempt))
                /\ UNCHANGED <<last_error, fetch_outcome>>
           ELSE /\ last_error' = Some([error |-> body.error, response |-> requests_sent])
                /\ IF ErrorRetries(attempt, max_retries)
                   THEN /\ fetch_pc' = "sleeping"
                        /\ waits' = Append(waits, ErrorWait(attempt))
                        /\ UNCHANGED fetch_outcome
                   ELSE /\ fetch_pc' = "raised"
                        /\ fetch_outcome' = Some([returned |-> FALSE,
                                                  response |-> requests_sent,
                                                  error |-> body.error])
                        /\ UNCHANGED waits
    /\ UNCHANGED <<has_token, max_retries, responses, attempt, requests_sent>>
    /\ UNCHANGED <<analyze_vars, delta_vars, cat_vars, late_vars>>

\* lines 828-829, 840-841, 847-853: the sleep ends and the loop continues, or
\* the loop is exhausted and lines 851-858 run without data
WakeUp ==
    /\ fetch_pc = "sleeping"
    /\ attempt' = attempt + 1
    /\ IF attempt + 1 < max_retries
       THEN /\ fetch_pc' = "loop"
            /\ UNCHANGED fetch_outcome
       ELSE /\ fetch_pc' = "raised"
            /\ fetch_outcome' =
                  Some([returned |-> FALSE, response |-> requests_sent,
                        error |-> IF IsNone(last_error) THEN "unbound_data"
                                  ELSE "failed_after_retries"])
    /\ UNCHANGED <<has_token, max_retries, responses, requests_sent, last_error, waits>>
    /\ UNCHANGED <<analyze_vars, delta_vars, cat_vars, late_vars>>

FetchNext == SendRequest \/ ReceiveResponse \/ WakeUp

SpecFetch == FetchInit /\ [][FetchNext]_vars

---------------------------------------------------------------------------
(* lichess_api.py: fetch_game_data, lines 109-552, and main.py: get_game.    *)
(* An answer of the remote service to a request is "200" (a PGN text),      *)
(* "200empty" (status 200 with a blank body), "403", "404", "500" (any      *)
(* other status), "connect" (client.get raises ConnectTimeout or            *)
(* ConnectError) or "timeout" (client.get raises another httpx exception,   *)
(* here ReadTimeout).                                                       *)

GameAnswers == {"200", "200empty", "403", "404", "500", "connect", "timeout"}

\* lines 109-113
pgn_urls == <<"export", "export?evals=0&clocks=0", "export?literate=1">>

\* line 121
game_max_retries == 2

\* a faulty variant of IsLastUrl: every url is treated as the final one
IsLastUrlAlways(u) == TRUE

\* lines 149, 157: url != pgn_urls[-1]
IsLastUrl(u) == u = Len(pgn_urls)

\* lines 127-160: one pass of the retry loop body for the answer `kind`
ExportAttempt(kind, u, att) ==
    IF kind \in {"200", "200empty"} THEN [act |-> "found", error |-> "none"]
    ELSE IF kind = "connect"
    THEN IF att < game_max_retries - 1 THEN [act |-> "sleep", error |-> "none"]
         ELSE IF ~IsLastUrl(u) THEN [act |-> "next_url", error |-> "none"]
         ELSE [act |-> "raise", error |-> "ValueError"]
    ELSE IF kind = "403"
    THEN \* the ValueError of line 140 is caught at line 156
         IF ~IsLastUrl(u) THEN [act |-> "next_url", error |-> "none"]
         ELSE [act |-> "raise", error |-> "ValueError"]
    ELSE IF kind = "timeout"
    THEN IF ~IsLastUrl(u) THEN [act |-> "next_url", error |-> "none"]
         ELSE [act |-> "raise", error |-> "ReadTimeout"]
    ELSE \* any other status: neither branch of lines 134-140 is taken
         [act |-> "next_attempt", error |-> "none"]

\* lines 165-533: the branch taken after the loop over pgn_urls
AfterLoop(response) ==
    IF ~IsNone(response) /\ Get(response) \in {"200", "200empty"}
    THEN IF Get(response) = "200empty"
         THEN [act |-> "raise", error |-> "ValueError"]
         ELSE [act |-> "parse", error |-> "none"]
    ELSE IF IsNone(response)
    THEN \* line 172 reads the attribute status_code of None
         [act |-> "raise", error |-> "AttributeError"]
    ELSE IF Get(response) = "404" THEN [act |-> "page_check", error |-> "none"]
    ELSE IF Get(response) = "403" THEN [act |-> "raise", error |-> "ValueError"]
    ELSE [act |-> "raise", error |-> "HTTPStatusError"]

\* main.py, lines 170-202: the status get_game answers with
GetGameStatus(error) ==
    IF IsNone(error) THEN 200
    ELSE IF Get(error) = "ValueError" THEN 400
    ELSE 500

GameInit ==
    /\ AnalyzeIdle
    /\ DeltaIdle
    /\ CatIdle
    /\ FetchIdle
    /\ PgnIdle
    /\ CommentIdle
    /\ ExtraIdle
    /\ game_pc = "export"
    /\ url_index = 1
    /\ game_attempt = 0
    /\ pgn_response = None
    /\ game_log = <<>>
    /\ game_error = None
    /\ http_status = None

\* the loops of lines 122-163 go on with the next attempt or the next url
NextAttempt(u, att) ==
    IF att + 1 < game_max_retries
    THEN [pc |-> "export", url |-> u, attempt |-> att + 1]
    ELSE IF ~IsLastUrl(u) THEN [pc |-> "export", url |-> u + 1, attempt |-> 0]
    ELSE [pc |-> "after", url |-> u, attempt |-> att]

\* lines 126-163: client.get(url) is awaited and its answer handled
ExportGet ==
    /\ game_pc = "export"
    /\ \E kind \in GameAnswers :
         LET r == ExportAttempt(kind, url_index, game_attempt)
             go == IF r.act = "next_url"
                   THEN [pc |-> "export", url |-> url_index + 1, attempt |-> 0]
                   ELSE NextAttempt(url_index, game_attempt)
         IN  /\ game_log' = Append(game_log, [url |-> pgn_urls[url_index], answer |-> kind])
             /\ IF r.act = "found"
                THEN /\ pgn_response' = Some(kind)
                     /\ game_pc' = "after"
                     /\ UNCHANGED <<url_index, game_attempt, game_error>>
                ELSE IF r.act = "sleep"
                THEN /\ game_pc' = "sleeping"
                     /\ UNCHANGED <<url_index, game_attempt, pgn_response, game_error>>
                ELSE IF r.act = "raise"
                THEN /\ game_pc' = "raised"
                     /\ game_error' = Some(r.error)
                     /\ UNCHANGED <<url_index, game_attempt, pgn_response>>
                ELSE /\ game_pc' = go.pc
                     /\ url_index' = go.url
                     /\ game_attempt' = go.attempt
                     /\ UNCHANGED <<pgn_response, game_error>>
    /\ UNCHANGED http_status
    /\ UNCHANGED <<analyze_vars, delta_vars, cat_vars, fetch_vars, pgn_vars, comment_vars, extra_vars>>

\* lines 143-146: asyncio.sleep(1.0) ends and the loop continues
ExportWake ==
    /\ game_pc = "sleeping"
    /\ game_attempt' = game_attempt + 1
    /\ game_pc' = "export"
    /\ UNCHANGED <<url_index, pgn_response, game_log, game_error, http_status>>
    /\ UNCHANGED <<analyze_vars, delta_vars, cat_vars, fetch_vars, pgn_vars, comment_vars, extra_vars>>

\* lines 165-628: the response is examined; the game record is built from
\* the PGN, the game page is requested, or an exception leaves the function
AfterExport ==
    /\ game_pc = "after"
    /\ LET r == AfterLoop(pgn_response)
       IN  IF r.act = "parse"
           THEN /\ game_pc' = "returned"
                /\ UNCHANGED <<game_log, game_error>>
           ELSE IF r.act = "page_check"
           THEN /\ game_pc' = "page_check"
                /\ game_log' = Append(game_log, [url |-> "game_page", answer |-> "pending"])
                /\ UNCHANGED game_error
           ELSE /\ game_pc' = "raised"
                /\ game_error' = Some(r.error)
                /\ UNCHANGED game_log
    /\ UNCHANGED <<url_index, game_attempt, pgn_response, http_status>>
    /\ UNCHANGED <<analyze_vars, delta_vars, cat_vars, fetch_vars, pgn_vars, comment_vars, extra_vars>>

\* main.py, lines 170-202: get_game answers the HTTP request
GetGameRespond ==
    /\ game_pc \in {"returned", "raised"}
    /\ http_status' = Some(GetGameStatus(game_error))
    /\ game_pc' = "responded"
    /\ UNCHANGED <<url_index, game_attempt, pgn_response, game_log, game_error>>
    /\ UNCHANGED <<analyze_vars, delta_vars, cat_vars, fetch_vars, pgn_vars, comment_vars, extra_vars>>

GameNext == ExportGet \/ ExportWake \/ AfterExport \/ GetGameRespond

SpecGame == GameInit /\ [][GameNext]_vars

---------------------------------------------------------------------------
(* lichess_api.py: parse_pgn_moves, lines 715-791.  A PGN text is a         *)
(* sequence of tokens: "tag" (a header line such as [Event "x"]), "ws"      *)
(* (blanks, tabs or line ends), "num" (a move number such as `1.`), a SAN   *)
(* token, "eval" (a comment {[%eval v]}) and "result" (1-0, 0-1, 1/2-1/2    *)
(* or an asterisk).                                                         *)

BodyTokens == {"ws", "num", "e4", "e5", "eval", "result"}

\* a game of three plies with headers, comments and a result
SamplePgn == <<"tag", "ws", "num", "e4", "ws", "eval", "ws", "e5", "ws", "eval", "ws",
               "num", "e4", "ws", "eval", "ws", "result">>

Blank(pgn) == \A k \in 1..Len(pgn) : pgn[k] = "ws"

\* a faulty variant of SkippedByReader: a comment is read as a move
SkippedByReaderNoComments(tok) == tok \in {"tag", "ws", "num"}

\* chess.pgn.read_game: headers, blanks, move numbers and comments carry no move
SkippedByReader(tok) == tok \in {"tag", "ws", "num", "eval"}

\* lines 743-752: the main line of the game chess.pgn.read_game builds; it
\* ends at the result and at the first token that is no legal move
RECURSIVE Mainline(_, _, _)
Mainline(pgn, i, board) ==
    IF i > Len(pgn) THEN <<>>
    ELSE IF SkippedByReader(pgn[i]) THEN Mainline(pgn, i + 1, board)
    ELSE IF pgn[i] = "result" THEN <<>>
    ELSE IF Legal(board, pgn[i])
         THEN <<pgn[i]>> \o Mainline(pgn, i + 1, Push(board, pgn[i]))
         ELSE <<>>

\* line 743: chess.pgn.read_game returns None at the end of a blank input
read_game(pgn) == IF Blank(pgn) THEN None ELSE Some(Mainline(pgn, 1, StartBoard))

\* lines 723-729 and 736: header lines and bracketed text are dropped
StripTags(pgn) == SelectSeq(pgn, LAMBDA tok : tok # "tag")

\* line 733: comments in braces are removed
StripComments(pgn) == SelectSeq(pgn, LAMBDA tok : tok # "eval")

\* lines 762-763: only text after a move number is matched
RECURSIVE AfterFirstNumber(_)
AfterFirstNumber(text) ==
    IF text = <<>> THEN <<>>
    ELSE IF Head(text) = "num" THEN Tail(text)
    ELSE AfterFirstNumber(Tail(text))

\* lines 768-789: the parts kept as moves
IsMovePart(tok) == tok \in SanTokens

\* lines 760-791: the regular-expression parser
RegexMoves(pgn) ==
    SelectSeq(AfterFirstNumber(StripComments(StripTags(pgn))), IsMovePart)

\* a faulty variant of Caught: only a ValueError is handled
CaughtValueErrorOnly(exc) == exc = "ValueError"

\* line 754: `except Exception` handles every exception of the try block
Caught(exc) == TRUE

\* a faulty variant of GameFound: the game read is never used
GameFoundNever(game) == FALSE

\* line 745: `if game:`
GameFound(game) == ~IsNone(game)

\* `path` is the part of the function that produced the returned list
parse_pgn_moves(pgn, error) ==
    IF ~IsNone(error)
    THEN IF Caught(Get(error))
         THEN [raised |-> None, moves |-> RegexMoves(pgn), path |-> "regex"]
         ELSE [raised |-> error, moves |-> <<>>, path |-> "none"]
    ELSE LET game == read_game(pgn)
         IN  IF GameFound(game)
             THEN [raised |-> None, moves |-> Get(game), path |-> "primary"]
             ELSE [raised |-> None, moves |-> RegexMoves(pgn), path |-> "regex"]

PgnTexts ==
    LET bodies == UNION { [1..n -> BodyTokens] : n \in 0..MaxPgnLen }
    IN  bodies \cup { <<"tag">> \o b : b \in bodies } \cup { SamplePgn }

\* what the import of chess.pgn or read_game may raise
PrimaryErrors == {None, Some("ImportError"), Some("ValueError")}

PgnInit ==
    /\ AnalyzeIdle
    /\ DeltaIdle
    /\ CatIdle
    /\ FetchIdle
    /\ GameIdle
    /\ CommentIdle
    /\ ExtraIdle
    /\ pgn_text \in PgnTexts
    /\ primary_error \in PrimaryErrors
    /\ parse_result = None

\* one call of parse_pgn_moves
ParsePgnMoves ==
    /\ IsNone(parse_result)
    /\ parse_result' = Some(parse_pgn_moves(pgn_text, primary_error))
    /\ UNCHANGED <<pgn_text, primary_error>>
    /\ UNCHANGED <<analyze_vars, delta_vars, cat_vars, fetch_vars, game_vars, comment_vars, extra_vars>>

PgnNext == ParsePgnMoves

SpecPgn == PgnInit /\ [][PgnNext]_vars

---------------------------------------------------------------------------
(* game_stats.py: parse_eval_comment and pgn_parser.py:                     *)
(* parse_eval_from_comment, applied to an annotation [%eval v].  The value  *)
(* v is `#N` (kind "mate"), a number of pawns with or without a decimal     *)
(* point (kind "pawns") or `cp=N` (kind "cp="); `neg` is its minus sign,    *)
(* `whole` the digits before the point and `frac` those after it.           *)

FracDigits == {0, 2, 3, 9}

EvalValues ==
    { [kind |-> k, neg |-> n, whole |-> w, point |-> FALSE, frac |-> <<>>] :
        k \in {"mate", "pawns", "cp="}, n \in BOOLEAN, w \in 0..MaxWhole }
    \cup
    { [kind |-> "pawns", neg |-> n, whole |-> w, point |-> TRUE, frac |-> f] :
        n \in BOOLEAN, w \in 0..MaxWhole,
        f \in UNION { [1..l -> FracDigits] : l \in 0..MaxFracLen } }

RECURSIVE Pow10(_)
Pow10(n) == IF n = 0 THEN 1 ELSE 10 * Pow10(n - 1)

RECURSIVE FracValue(_)
FracValue(frac) ==
    IF frac = <<>> THEN 0
    ELSE FracValue(SubSeq(frac, 1, Len(frac) - 1)) * 10 + frac[Len(frac)]

Signed(neg, x) == IF neg THEN 0 - x ELSE x

\* the magnitudes below 400 whose nearest double, multiplied by 100, lies
\* just under the integer: int(float("0.29") * 100) is 28
FloatShortfall == {29, 57, 58, 113, 114, 115, 116, 201, 203, 205, 207, 226, 228, 230,
                   232, 251, 253, 255}

\* int(float(v) * 100): the product in double precision, truncated
FloatTimes100(v) ==
    LET scale == Pow10(Len(v.frac))
        num == (v.whole * scale + FracValue(v.frac)) * 100
        q == num \div scale
    IN  Signed(v.neg, IF num % scale = 0 /\ q \in FloatShortfall THEN q - 1 ELSE q)

PgnEval(cp, mate) == [cp |-> cp, mate |-> mate]

\* game_stats.py, lines 83-104
parse_eval_comment(v) ==
    IF v.kind = "mate" THEN Some(PgnEval(None, Some(Signed(v.neg, v.whole))))
    ELSE IF v.kind = "pawns" THEN Some(PgnEval(Some(FloatTimes100(v)), None))
    ELSE \* float("cp=N") raises and the bare except returns None
         None

\* pgn_parser.py, lines 71-119: the patterns are tried in order
parse_eval_from_comment(v) ==
    IF v.kind = "cp=" THEN Some(PgnEval(Some(Signed(v.neg, v.whole)), None))
    ELSE IF v.kind = "pawns"
    THEN IF v.point
         THEN Some(PgnEval(Some(FloatTimes100(v)), None))
         ELSE \* lines 108-110: a value without a point is taken as centipawns
              Some(PgnEval(Some(Signed(v.neg, v.whole)), None))
    ELSE Some(PgnEval(None, Some(Signed(v.neg, v.whole))))

CommentInit ==
    /\ AnalyzeIdle
    /\ DeltaIdle
    /\ CatIdle
    /\ FetchIdle
    /\ GameIdle
    /\ PgnIdle
    /\ ExtraIdle
    /\ eval_value \in { Some(v) : v \in EvalValues }
    /\ stats_result = None
    /\ parser_result = None

\* one call of game_stats.parse_eval_comment
ParseEvalComment ==
    /\ IsNone(stats_result)
    /\ stats_result' = Some(parse_eval_comment(Get(eval_value)))
    /\ UNCHANGED <<eval_value, parser_result>>
    /\ UNCHANGED <<analyze_vars, delta_vars, cat_vars, fetch_vars, game_vars, pgn_vars, extra_vars>>

\* one call of pgn_parser.parse_eval_from_comment
ParseEvalFromComment ==
    /\ IsNone(parser_result)
    /\ parser_result' = Some(parse_eval_from_comment(Get(eval_value)))
    /\ UNCHANGED <<eval_value, stats_result>>
    /\ UNCHANGED <<analyze_vars, delta_vars, cat_vars, fetch_vars, game_vars, pgn_vars, extra_vars>>

CommentNext == ParseEvalComment \/ ParseEvalFromComment

SpecComment == CommentInit /\ [][CommentNext]_vars

---------------------------------------------------------------------------
(* game_stats.py: categorize_move_from_evals applied to drawn arguments *)

\* an evaluation dict of a PGN annotation; a key that is missing or null is None
EvalDict(cp, mate) == [cp |-> cp, mate |-> mate]

\* a faulty variant of StatsCpCategory: the thresholds are inclusive
StatsCpCategoryInclusive(abs_delta) ==
    IF abs_delta <= 50 THEN "accurate"
    ELSE IF abs_delta <= 100 THEN "good"
    ELSE IF abs_delta <= 200 THEN "inaccuracy"
    ELSE IF abs_delta <= 300 THEN "mistake"
    ELSE "blunder"

\* lines 130-139: the category of a centipawn magnitude
StatsCpCategory(abs_delta) ==
    IF abs_delta < 50 THEN "accurate"
    ELSE IF abs_delta < 100 THEN "good"
    ELSE IF abs_delta < 200 THEN "inaccuracy"
    ELSE IF abs_delta < 300 THEN "mistake"
    ELSE "blunder"

categorize_move_from_evals(before, after) ==
    IF IsNone(before) \/ IsNone(after) THEN "accurate"
    ELSE LET before_cp == Get(before).cp
             after_cp == Get(after).cp
         IN  IF ~IsNone(Get(before).mate) \/ ~IsNone(Get(after).mate) THEN "accurate"
             ELSE IF IsNone(before_cp) \/ IsNone(after_cp) THEN "accurate"
             ELSE LET delta_cp == Get(after_cp) - Get(before_cp)
                      abs_delta == abs(delta_cp)
                  IN  StatsCpCategory(abs_delta)

StatsBeforeSamples ==
    {None} \cup { Some(EvalDict(cp, mate)) :
                    cp \in {None, Some(0), Some(-100), Some(30)},
                    mate \in {None, Some(3)} }

StatsAfterSamples ==
    {None} \cup { Some(EvalDict(cp, mate)) :
                    cp \in {None} \cup { Some(x) : x \in {-300, -50, -49, 0, 9, 10, 49, 50,
                                                          99, 100, 199, 200, 299, 300} },
                    mate \in {None, Some(0), Some(-2)} }

StatsInit ==
    /\ AnalyzeIdle
    /\ DeltaIdle
    /\ CatIdle
    /\ FetchIdle
    /\ GameIdle
    /\ PgnIdle
    /\ CommentIdle
    /\ EndpointIdle
    /\ McpIdle
    /\ stats_before_eval \in StatsBeforeSamples
    /\ stats_after_eval \in StatsAfterSamples
    /\ stats_category = None

\* one call of categorize_move_from_evals
CategorizeFromEvals ==
    /\ IsNone(stats_category)
    /\ stats_category' = Some(categorize_move_from_evals(stats_before_eval, stats_after_eval))
    /\ UNCHANGED <<stats_before_eval, stats_after_eval>>
    /\ UNCHANGED <<analyze_vars, delta_vars, cat_vars, fetch_vars, game_vars, pgn_vars,
                   comment_vars, endpoint_vars, mcp_vars>>

StatsNext == CategorizeFromEvals

SpecStats == StatsInit /\ [][StatsNext]_vars

---------------------------------------------------------------------------
(* main.py: the delta GET /api/eval/{game_id}/{ply} reports *)

\* lines 320-328; before and after are the CloudEvals built in lines 302-318
\* from the stored dicts, move_player_is_white is ply % 2 == 1
get_evaluation_delta(before, after, move_player_is_white) ==
    LET diff == Get(after.cp) - Get(before.cp)
        delta_cp == IF ~IsNone(after.cp) /\ ~IsNone(before.cp)
                    THEN Some(IF ~move_player_is_white THEN 0 - diff ELSE diff)
                    ELSE None
        delta_mate == IF ~IsNone(after.mate) /\ Get(after.mate) # 0
                      THEN after.mate ELSE None
    IN  [delta_cp |-> delta_cp, delta_mate |-> delta_mate]

\* the endpoint computes the delta of the stored evaluations
EndpointDelta ==
    /\ IsNone(endpoint_delta)
    /\ ~IsNone(before_eval)
    /\ endpoint_delta' = Some(get_evaluation_delta(Get(before_eval), Get(after_eval),
                                                   is_white_turn))
    /\ UNCHANGED <<analyze_vars, delta_vars, cat_vars, fetch_vars, game_vars, pgn_vars,
                   comment_vars, stats_vars, mcp_vars>>

EndpointNext == CalculateDelta \/ EndpointDelta

SpecEndpoint == DeltaInit /\ [][EndpointNext]_vars

---------------------------------------------------------------------------
(* mcp_research.py: the module-level MCP session, initialize_mcp_session,   *)
(* cleanup_mcp_session and open_lichess_analysis_with_playwright, and       *)
(* main.py: POST /api/research/{game_id}/{ply}.                             *)
(*                                                                          *)
(* Each caller is a coroutine on the one event loop: a lifespan-style call  *)
(* of initialize_mcp_session, or a research request.  A step of a caller    *)
(* runs from one await to the next, so the module globals are read and      *)
(* written atomically inside a step and interleaved between steps.  An      *)
(* object created by a caller (client context, stream pair, session) is     *)
(* named by that caller.  What the MCP server does (whether a context       *)
(* opens, a handshake succeeds, a tool call raises) is not determined.      *)

Callers == 1..MaxCallers

\* the games and plies the research requests are made for: 0 <= ply <= len(moves)
ResearchInputs ==
    { [moves |-> <<"e4", "e5">>, ply |-> 0],
      [moves |-> <<"e4", "e5">>, ply |-> 2],
      [moves |-> <<"Zz", "e4">>, ply |-> 2] }

\* mcp_research.py lines 557-564 and 146-153: the board after the first ply
\* moves, a move that does not parse being skipped
RECURSIVE BoardAtPly(_, _, _, _)
BoardAtPly(board, i, ply, mv) ==
    IF i >= ply THEN board
    ELSE IF i < Len(mv) /\ Legal(board, mv[i + 1])
         THEN BoardAtPly(Push(board, mv[i + 1]), i + 1, ply, mv)
         ELSE BoardAtPly(board, i + 1, ply, mv)

\* "https://lichess.org/analysis?fen=" followed by quote(fen)
FenUrl(fen) == [page |-> "analysis", fen |-> fen]

\* the url of the browser's current tab
TabUrl == [page |-> "analysis", tab |-> "current"]

\* lines 541-573
setup_lichess_board_via_playwright(ply, mv) ==
    FenUrl(Fen(BoardAtPly(StartBoard, 0, ply, mv)))

\* main.py line 765: game_data.moves[:ply] if ply > 0 else []
MovesToPly == IF research_game.ply > 0
              THEN SubSeq(research_game.moves, 1, research_game.ply) ELSE <<>>

analysis_url == setup_lichess_board_via_playwright(research_game.ply, MovesToPly)

\* the module globals
Module ==
    [session |-> mcp_session, session_context |-> mcp_session_context,
     read_write |-> mcp_read_write, client_context |-> mcp_client_context,
     initialized |-> mcp_initialized]

SetModule(m) ==
    /\ mcp_session' = m.session
    /\ mcp_session_context' = m.session_context
    /\ mcp_read_write' = m.read_write
    /\ mcp_client_context' = m.client_context
    /\ mcp_initialized' = m.initialized

\* a caller that has not started: its kind, its position, the local `session`
\* of the request, the session whose initialize() it awaits, the failures it
\* met and what it returned
NewCaller(kind) ==
    [kind |-> kind, pc |-> "start", session |-> None, awaited |-> None,
     failure |-> {}, result |-> None]

Failed(c, what) == [c EXCEPT !.failure = @ \cup {what}]

\* a faulty variant of Response: it always claims the browser was opened
ResponseAlwaysOpened(mcp_url) ==
    [success |-> TRUE,
     url |-> IF ~IsNone(mcp_url) THEN Get(mcp_url) ELSE analysis_url,
     opened_via_mcp |-> TRUE]

\* main.py lines 774-801: the response built from what the side channel returned
Response(mcp_url) ==
    [success |-> TRUE,
     url |-> IF ~IsNone(mcp_url) THEN Get(mcp_url) ELSE analysis_url,
     opened_via_mcp |-> ~IsNone(mcp_url)]

\* open_lichess_analysis_with_playwright returns mcp_url and the endpoint answers
ResearchRespond(c, mcp_url) ==
    [c EXCEPT !.pc = "done", !.result = Some(Response(mcp_url))]

\* initialize_mcp_session returns v to caller c: the lifespan-style caller is
\* done; the request goes on with lines 135-141
InitializeReturn(c, v, m) ==
    IF c.kind = "initialize" THEN [c EXCEPT !.pc = "done", !.result = Some(v)]
    ELSE IF ~v THEN ResearchRespond(c, None)
    ELSE IF IsNone(m.session) THEN ResearchRespond(c, None)
    ELSE [c EXCEPT !.pc = "list_tools", !.session = m.session]

\* cleanup_mcp_session, line 103 on
CleanupFinish(c, m) ==
    LET m1 == [m EXCEPT !.initialized = FALSE]
    IN  [c |-> InitializeReturn(c, FALSE, m1), m |-> m1]

\* cleanup_mcp_session, lines 95-97: up to the await of the client's __aexit__
CleanupSecond(c, m) ==
    IF ~IsNone(m.read_write) /\ ~IsNone(m.client_context)
    THEN [c |-> [c EXCEPT !.pc = "cleanup_client_exit"], m |-> m]
    ELSE CleanupFinish(c, m)

\* cleanup_mcp_session, lines 87-89: up to the await of the session's __aexit__
CleanupEntry(c, m) ==
    IF ~IsNone(m.session) /\ ~IsNone(m.session_context)
    THEN [c |-> [c EXCEPT !.pc = "cleanup_session_exit"], m |-> m]
    ELSE CleanupSecond(c, m)

\* initialize_mcp_session, lines 35-56: up to the await of the client's __aenter__
InitializeEntry(p, c, m) ==
    IF m.initialized THEN [c |-> InitializeReturn(c, ~IsNone(m.session), m), m |-> m]
    ELSE LET m1 == [m EXCEPT !.initialized = TRUE]
         IN  IF ~library_available
             THEN [c |-> InitializeReturn(Failed(c, "library"), FALSE, m1), m |-> m1]
             ELSE [c |-> [c EXCEPT !.pc = "client_enter"],
                   m |-> [m1 EXCEPT !.client_context = Some(p)]]

Step(p, r) ==
    /\ callers' = [callers EXCEPT ![p] = r.c]
    /\ SetModule(r.m)

McpOthers == <<analyze_vars, delta_vars, cat_vars, fetch_vars, game_vars, pgn_vars,
               comment_vars, stats_vars, endpoint_vars>>

McpInit ==
    /\ AnalyzeIdle
    /\ DeltaIdle
    /\ CatIdle
    /\ FetchIdle
    /\ GameIdle
    /\ PgnIdle
    /\ CommentIdle
    /\ StatsIdle
    /\ EndpointIdle
    /\ library_available \in BOOLEAN
    /\ mcp_session = None
    /\ mcp_session_context = None
    /\ mcp_read_write = None
    /\ mcp_client_context = None
    /\ mcp_initialized = FALSE
    /\ handshake = [p \in Callers |-> "none"]
    /\ callers \in [Callers -> { NewCaller(k) : k \in {"initialize", "research"} }]
    /\ research_game \in ResearchInputs

\* a lifespan-style call of initialize_mcp_session starts
InitializeCall(p) ==
    /\ callers[p].kind = "initialize"
    /\ callers[p].pc = "start"
    /\ Step(p, InitializeEntry(p, callers[p], Module))
    /\ UNCHANGED <<library_available, handshake, research_game>>
    /\ UNCHANGED McpOthers

\* a research request reaches open_lichess_analysis_with_playwright, lines
\* 132-141: it takes the global session or starts initialize_mcp_session
ResearchCall(p) ==
    /\ callers[p].kind = "research"
    /\ callers[p].pc = "start"
    /\ IF ~IsNone(mcp_session)
       THEN Step(p, [c |-> [callers[p] EXCEPT !.pc = "list_tools", !.session = mcp_session],
                     m |-> Module])
       ELSE Step(p, InitializeEntry(p, callers[p], Module))
    /\ UNCHANGED <<library_available, handshake, research_game>>
    /\ UNCHANGED McpOthers

\* lines 56-60: the stdio client opened, or raised
ClientEntered(p) ==
    /\ callers[p].pc = "client_enter"
    /\ \E ok \in BOOLEAN :
         IF ok
         THEN Step(p, [c |-> [callers[p] EXCEPT !.pc = "session_enter"],
                       m |-> [Module EXCEPT !.read_write = Some(p),
                                            !.session_context = Some(p)]])
         ELSE Step(p, CleanupEntry(Failed(callers[p], "client"), Module))
    /\ UNCHANGED <<library_available, handshake, research_game>>
    /\ UNCHANGED McpOthers

\* lines 60-62: the ClientSession was entered, or raised
SessionEntered(p) ==
    /\ callers[p].pc = "session_enter"
    /\ \E ok \in BOOLEAN :
         IF ok
         THEN Step(p, [c |-> [callers[p] EXCEPT !.pc = "sleep"],
                       m |-> [Module EXCEPT !.session = Some(p)]])
         ELSE Step(p, CleanupEntry(Failed(callers[p], "session"), Module))
    /\ UNCHANGED <<library_available, handshake, research_game>>
    /\ UNCHANGED McpOthers

\* lines 62-64: the sleep is over and initialize() is sent on the global
\* session; without one the attribute access raises
SleepDone(p) ==
    /\ callers[p].pc = "sleep"
    /\ IF IsNone(mcp_session)
       THEN /\ Step(p, CleanupEntry(Failed(callers[p], "handshake"), Module))
            /\ UNCHANGED handshake
       ELSE /\ Step(p, [c |-> [callers[p] EXCEPT !.pc = "handshake",
                                                 !.awaited = mcp_session],
                        m |-> Module])
            /\ handshake' = [handshake EXCEPT ![Get(mcp_session)] = "pending"]
    /\ UNCHANGED <<library_available, research_game>>
    /\ UNCHANGED McpOthers

\* lines 64-70: the handshake completed, or raised or timed out
HandshakeDone(p) ==
    /\ callers[p].pc = "handshake"
    /\ \E ok \in BOOLEAN :
         IF ok
         THEN /\ handshake' = [handshake EXCEPT ![Get(callers[p].awaited)] = "ok"]
              /\ Step(p, [c |-> InitializeReturn(callers[p], TRUE, Module), m |-> Module])
         ELSE /\ handshake' = [handshake EXCEPT ![Get(callers[p].awaited)] = "failed"]
              /\ Step(p, CleanupEntry(Failed(callers[p], "handshake"), Module))
    /\ UNCHANGED <<library_available, research_game>>
    /\ UNCHANGED McpOthers

\* lines 89-93: the session's __aexit__ returned or raised
SessionExited(p) ==
    /\ callers[p].pc = "cleanup_session_exit"
    /\ Step(p, CleanupSecond(callers[p], [Module EXCEPT !.session = None,
                                                        !.session_context = None]))
    /\ UNCHANGED <<library_available, handshake, research_game>>
    /\ UNCHANGED McpOthers

\* lines 97-101: the client's __aexit__ returned or raised
ClientExited(p) ==
    /\ callers[p].pc = "cleanup_client_exit"
    /\ Step(p, CleanupFinish(callers[p], [Module EXCEPT !.read_write = None,
                                                        !.client_context = None]))
    /\ UNCHANGED <<library_available, handshake, research_game>>
    /\ UNCHANGED McpOthers

\* lines 143-173: session.list_tools() answers
ListTools(p) ==
    /\ callers[p].pc = "list_tools"
    /\ \E out \in {"raise", "no_navigate", "ok"} :
         LET c == callers[p]
         IN  Step(p, [c |-> CASE out = "raise" -> ResearchRespond(Failed(c, "list_tools"), None)
                              [] out = "no_navigate" ->
                                    ResearchRespond(Failed(c, "navigate_absent"), None)
                              [] out = "ok" -> [c EXCEPT !.pc = "tabs"],
                      m |-> Module])
    /\ UNCHANGED <<library_available, handshake, research_game>>
    /\ UNCHANGED McpOthers

\* lines 178-241: the tab list (and the tab selection) answered, or raised and
\* the handler falls back to opening a new tab
TabsListed(p) ==
    /\ callers[p].pc = "tabs"
    /\ \E raised \in BOOLEAN :
         LET c == IF raised THEN Failed(callers[p], "tabs") ELSE callers[p]
         IN  Step(p, [c |-> [c EXCEPT !.pc = "navigate"], m |-> Module])
    /\ UNCHANGED <<library_available, handshake, research_game>>
    /\ UNCHANGED McpOthers

\* lines 223-241: the navigate call answered, or raised
Navigated(p) ==
    /\ callers[p].pc = "navigate"
    /\ \E raised \in BOOLEAN :
         LET c == callers[p]
         IN  Step(p, [c |-> IF raised THEN ResearchRespond(Failed(c, "navigate"), None)
                            ELSE [c EXCEPT !.pc = "paste"],
                      m |-> Module])
    /\ UNCHANGED <<library_available, handshake, research_game>>
    /\ UNCHANGED McpOthers

\* lines 247-492: the textarea checks and the PGN paste; what they raise is
\* caught and printed
Pasted(p) ==
    /\ callers[p].pc = "paste"
    /\ \E raised \in BOOLEAN :
         LET c == IF raised THEN Failed(callers[p], "paste") ELSE callers[p]
         IN  Step(p, [c |-> [c EXCEPT !.pc = "final_tabs"], m |-> Module])
    /\ UNCHANGED <<library_available, handshake, research_game>>
    /\ UNCHANGED McpOthers

\* lines 495-532: the final tab list; the url of the current tab replaces the
\* FEN url when there is one
FinalTabs(p) ==
    /\ callers[p].pc = "final_tabs"
    /\ \E out \in {"raise", "no_tab", "tab"} :
         LET c == IF out = "raise" THEN Failed(callers[p], "final_tabs") ELSE callers[p]
             encoded_fen == Fen(BoardAtPly(StartBoard, 0, research_game.ply, MovesToPly))
             final_analysis_url == IF out = "tab" THEN TabUrl ELSE FenUrl(encoded_fen)
         IN  Step(p, [c |-> ResearchRespond(c, Some(final_analysis_url)), m |-> Module])
    /\ UNCHANGED <<library_available, handshake, research_game>>
    /\ UNCHANGED McpOthers

McpNext ==
    \E p \in Callers :
        \/ InitializeCall(p)
        \/ ResearchCall(p)
        \/ ClientEntered(p)
        \/ SessionEntered(p)
        \/ SleepDone(p)
        \/ HandshakeDone(p)
        \/ SessionExited(p)
        \/ ClientExited(p)
        \/ ListTools(p)
        \/ TabsListed(p)
        \/ Navigated(p)
        \/ Pasted(p)
        \/ FinalTabs(p)

SpecMcp == McpInit /\ [][McpNext]_vars

---------------------------------------------------------------------------
(* Claims *)

Indices(seq) == 1..Len(seq)

\* the indices of the moves whose position key was computed, in order
RECURSIVE KeyedFrom(_)
KeyedFrom(i) ==
    IF i > Len(fens_to_eval) THEN <<>>
    ELSE IF IsNone(fens_to_eval[i]) THEN KeyedFrom(i + 1)
    ELSE <<i>> \o KeyedFrom(i + 1)

IsPlaceholder(e) ==
    e.cp = Some(0) /\ e.mate = None /\ e.depth = 0 /\ e.nodes = 0 /\ e.pv = <<>>

\* C1: in the report of analyze_game, the Move Record of move i carries move i
\* and, as after_eval, the evaluation obtained for the position reached after
\* move i (the stored evaluation of that position or the placeholder for it),
\* whatever the order in which the fetches completed.
C1_ResultsInMoveOrder ==
    pc = "done" =>
        \A k \in Indices(evaluations) :
            LET r == evaluations[k] IN
            /\ r.ply \in Indices(moves)
            /\ r.move = moves[r.ply]
            /\ ~IsNone(fens_to_eval[r.ply])
            /\ r.after_eval.fen = fens_to_eval[r.ply]
            /\ r.after_eval \in ServiceEvals(fens_to_eval[r.ply])
                                \cup {Placeholder(fens_to_eval[r.ply])}

C1_Witness ==
    /\ pc = "done"
    /\ out_of_order
    /\ Len(evaluations) >= 3
    /\ failed = {}

\* C2: the number of per-move fetches admitted through the gate and not yet
\* resolved (fetching, sleeping before the retry, or retrying) never exceeds
\* 20 with an API token and 5 without.
C2_GateBound ==
    Cardinality(InFlight) <= IF token THEN 20 ELSE 5

C2_Witness ==
    /\ ~token
    /\ Cardinality(InFlight) = 5
    /\ waiters # <<>>
    /\ \E i \in Tasks : phase[i] = "sleeping"

\* C3: analyze_game never raises, whatever fetches fail: a failed initial
\* fetch and every failed per-move fetch (a failed retry included) is replaced
\* by the placeholder cp=0, mate=None, depth=0, nodes=0, pv=[], and the
\* analysis ends with a report.
C3_FailuresAbsorbed ==
    /\ pc # "raised"
    /\ \A i \in Tasks : phase[i] # "raised"
    /\ (0 \in failed /\ pc \in {"prepared", "gather", "done"})
          => IsPlaceholder(Get(initial_eval))
    /\ \A i \in Tasks :
          (i \in failed /\ phase[i] = "done")
             => /\ ~IsNone(results[i])
                /\ IsPlaceholder(Get(results[i]))
                /\ Get(results[i]).fen = fens_to_eval[i]
    /\ pc = "done" => ~IsNone(report)

C3_Witness ==
    /\ pc = "done"
    /\ 0 \in failed
    /\ Cardinality(failed) >= 3
    /\ Len(evaluations) >= 2

\* C4: a move that fails to replay has a null position key, is never fetched,
\* and is left out of the report without aborting the analysis: the Move
\* Records are exactly the moves with a non-null key, in their original order.
C4_SkippedMoves ==
    /\ pc # "raised"
    /\ \A i \in Tasks : IsNone(fens_to_eval[i]) => i \notin fetched
    /\ pc = "done" =>
          /\ [k \in Indices(evaluations) |-> evaluations[k].ply] = KeyedFrom(1)
          /\ \A k \in Indices(evaluations) : evaluations[k].move = moves[evaluations[k].ply]

C4_Witness ==
    /\ pc = "done"
    /\ Len(evaluations) >= 2
    /\ \E i \in Tasks : \E j \in Tasks :
          i < j /\ IsNone(fens_to_eval[i]) /\ ~IsNone(fens_to_eval[j])

\* C5: in every report, a Move Record with an odd ply has player "white" and
\* one with an even ply has player "black".
C5_WhitePlaysOddPlies ==
    pc = "done" =>
        \A k \in Indices(evaluations) :
            evaluations[k].player = IF evaluations[k].ply % 2 = 1 THEN "white" ELSE "black"

\* a missing centipawn value read as 0
ZeroIfMissing(o) == IF o = None THEN 0 ELSE Get(o)

Calculated == ~IsNone(delta)

NoMateBefore == IsNone(Get(before_eval).mate)

NoMateAfter == IsNone(Get(after_eval).mate)

\* C6: without a mate value on either side, calculate_evaluation_delta returns
\* delta_mate = null and delta_cp = after.cp - before.cp for White,
\* before.cp - after.cp for Black, a missing cp counting as 0; the delta for
\* the other mover colour is its negation.
C6_CentipawnDelta ==
    (Calculated /\ NoMateBefore /\ NoMateAfter) =>
        LET b == ZeroIfMissing(Get(before_eval).cp)
            a == ZeroIfMissing(Get(after_eval).cp)
            other == calculate_evaluation_delta(Get(before_eval), Get(after_eval),
                                                ~is_white_turn)
        IN  /\ Get(delta).delta_mate = None
            /\ Get(delta).delta_cp = Some(IF is_white_turn THEN a - b ELSE b - a)
            /\ other.delta_mate = None
            /\ other.delta_cp = Some(0 - Get(Get(delta).delta_cp))

C6_Witness ==
    /\ Calculated /\ NoMateBefore /\ NoMateAfter
    /\ ~is_white_turn
    /\ Get(before_eval).cp = None
    /\ Get(after_eval).cp = Some(150)
    /\ Get(delta).delta_cp = Some(-150)

\* C7: with a mate value on at least one side, calculate_evaluation_delta
\* returns delta_cp = null and delta_mate = after.mate if mate was absent
\* before, -999 if it was present before and is absent after, and
\* after.mate - before.mate if present on both sides, whatever the cp fields
\* and the mover colour are.
C7_MateDelta ==
    (Calculated /\ ~(NoMateBefore /\ NoMateAfter)) =>
        LET bm == Get(before_eval).mate
            am == Get(after_eval).mate
        IN  /\ Get(delta).delta_cp = None
            /\ Get(delta).delta_mate =
                  IF bm = None THEN Some(Get(am))
                  ELSE IF am = None THEN Some(-999)
                  ELSE Some(Get(am) - Get(bm))

C7_Witness ==
    /\ Calculated
    /\ ~NoMateBefore /\ NoMateAfter
    /\ ~is_white_turn
    /\ Get(before_eval).cp # None /\ Get(after_eval).cp # None
    /\ Get(delta) = [delta_cp |-> None, delta_mate |-> Some(-999)]

\* C8, as claimed: with mate absent from both evaluations,
\* calculate_evaluation_delta returns both delta fields null.
C8_BothNullWithoutMate ==
    (Calculated /\ NoMateBefore /\ NoMateAfter) =>
        (Get(delta).delta_cp = None /\ Get(delta).delta_mate = None)

\* C8, amended: calculate_evaluation_delta never returns both delta fields
\* null; with mate absent from both evaluations delta_mate is null and
\* delta_cp is an integer, also when both cp values are missing.
C8_NeverBothNull ==
    Calculated =>
        /\ ~(Get(delta).delta_cp = None /\ Get(delta).delta_mate = None)
        /\ (NoMateBefore /\ NoMateAfter) =>
              /\ Get(delta).delta_mate = None
              /\ Get(delta).delta_cp # None
              /\ Get(Get(delta).delta_cp) \in Int

C8_Witness ==
    /\ Calculated /\ NoMateBefore /\ NoMateAfter
    /\ Get(before_eval).cp = None
    /\ Get(after_eval).cp = None
    /\ Get(delta) = [delta_cp |-> Some(0), delta_mate |-> None]

Magnitude(x) == IF x < 0 THEN 0 - x ELSE x

\* the table of categories of the specification
CategoryTable(a) ==
    IF a.delta_mate # None
    THEN IF Get(a.delta_mate) < 0 THEN "blunder"
         ELSE IF Get(a.delta_mate) > 0 THEN "good"
         ELSE "accurate"
    ELSE IF a.delta_cp = None THEN "accurate"
    ELSE IF Magnitude(Get(a.delta_cp)) < 10 THEN "accurate"
    ELSE IF Magnitude(Get(a.delta_cp)) < 50 THEN "good"
    ELSE IF Magnitude(Get(a.delta_cp)) < 100 THEN "inaccuracy"
    ELSE IF Magnitude(Get(a.delta_cp)) < 300 THEN "mistake"
    ELSE "blunder"

\* C9: categorize_move returns the category of the table for every argument
\* pair: by the sign of delta_mate when it is non-null (whatever delta_cp is),
\* accurate when both are null, and otherwise by |delta_cp| against 10, 50,
\* 100 and 300.
C9_CategoryTable ==
    \A k \in Indices(cat_results) : cat_results[k] = CategoryTable(cat_args[k])

C9_Witness ==
    /\ Len(cat_results) = 2
    /\ cat_args[1] = [delta_cp |-> Some(0), delta_mate |-> Some(-1)]
    /\ cat_results[1] = "blunder"
    /\ cat_args[2] = [delta_cp |-> Some(-10), delta_mate |-> None]
    /\ cat_results[2] = "good"

Severity(c) ==
    CASE c = "accurate" -> 0
      [] c = "good" -> 1
      [] c = "inaccuracy" -> 2
      [] c = "mistake" -> 3
      [] c = "blunder" -> 4

\* C10: for centipawn deltas d1, d2 (mate null) with |d1| <= |d2|, the
\* category of d1 is not more severe than the category of d2; so deltas of
\* equal magnitude and opposite sign get the same category.
C10_MonotoneInMagnitude ==
    (/\ Len(cat_results) = 2
     /\ cat_args[1].delta_mate = None /\ cat_args[2].delta_mate = None
     /\ cat_args[1].delta_cp # None /\ cat_args[2].delta_cp # None
     /\ Magnitude(Get(cat_args[1].delta_cp)) <= Magnitude(Get(cat_args[2].delta_cp)))
        => Severity(cat_results[1]) <= Severity(cat_results[2])

C10_Witness ==
    /\ Len(cat_results) = 2
    /\ cat_args[1] = [delta_cp |-> Some(-299), delta_mate |-> None]
    /\ cat_args[2] = [delta_cp |-> Some(299), delta_mate |-> None]
    /\ cat_results = <<"mistake", "mistake">>

\* C11: a move that loses a mate (mate present before, absent after) is
\* categorized blunder, whichever side moved and whatever the sign of the lost
\* mate; a move after which a mate m appears (absent before) is categorized
\* good if m > 0 and blunder if m < 0.
C11_MateAppearsOrDisappears ==
    (Calculated /\ Len(cat_results) = 1) =>
        /\ (~NoMateBefore /\ NoMateAfter) => cat_results[1] = "blunder"
        /\ (NoMateBefore /\ ~NoMateAfter /\ Get(Get(after_eval).mate) > 0)
              => cat_results[1] = "good"
        /\ (NoMateBefore /\ ~NoMateAfter /\ Get(Get(after_eval).mate) < 0)
              => cat_results[1] = "blunder"

C11_Witness ==
    /\ Calculated
    /\ Get(before_eval).mate = Some(-2)
    /\ NoMateAfter
    /\ ~is_white_turn
    /\ cat_results = <<"blunder">>

FetchEnded == fetch_pc \in {"returned", "raised"}

\* the number of 429 answers at the head of the script
RECURSIVE LeadingRateLimits(_)
LeadingRateLimits(j) ==
    IF j > Len(responses) \/ responses[j] # "429" THEN 0 ELSE 1 + LeadingRateLimits(j + 1)

\* the answers received so far
Received == IF fetch_pc = "awaiting" THEN requests_sent - 1 ELSE requests_sent

\* C12: against k answers 429 followed by a 200, fetch_cloud_eval with
\* max_retries = m sends exactly m requests and raises the rate-limit error
\* without returning if k >= m, and returns the value of answer k+1 if k < m.
C12_RateLimitRetries ==
    LET k == LeadingRateLimits(1) IN
    /\ k >= max_retries =>
          /\ fetch_pc # "returned"
          /\ requests_sent <= max_retries
          /\ FetchEnded =>
                /\ requests_sent = max_retries
                /\ Get(fetch_outcome) = [returned |-> FALSE, response |-> max_retries,
                                         error |-> "rate_limit"]
    /\ (k < max_retries /\ responses[k + 1] = "200") =>
          /\ requests_sent <= k + 1
          /\ FetchEnded =>
                Get(fetch_outcome) = [returned |-> TRUE, response |-> k + 1,
                                      error |-> "none"]

C12_Witness ==
    /\ max_retries = 3
    /\ responses[1] = "429" /\ responses[2] = "429" /\ responses[3] = "200"
    /\ fetch_pc = "returned"
    /\ Get(fetch_outcome).response = 3
    /\ Len(waits) = 2

\* C13: when every attempt meets a transport error or a non-2xx status other
\* than 404 and 429, exactly max_retries requests are sent and the error of
\* the last attempt is propagated; and whatever the answers are, one call
\* sends at most max_retries requests and returns only on a 2xx answer.
C13_ErrorRetries ==
    /\ requests_sent <= max_retries
    /\ fetch_pc = "returned" => responses[Get(fetch_outcome).response] = "200"
    /\ (FetchEnded /\ \A j \in 1..max_retries : responses[j] \in {"500", "transport"}) =>
          /\ requests_sent = max_retries
          /\ Get(fetch_outcome) =
                [returned |-> FALSE, response |-> max_retries,
                 error |-> IF responses[max_retries] = "500" THEN "http_status"
                           ELSE "transport"]

C13_Witness ==
    /\ max_retries = 3
    /\ responses[1] = "500" /\ responses[2] = "transport" /\ responses[3] = "500"
    /\ fetch_pc = "raised"
    /\ Get(fetch_outcome).error = "http_status"
    /\ requests_sent = 3

\* C14: after a 404 answer fetch_cloud_eval sends no further request, and the
\* call ends by raising the error that says the cloud eval is not available.
C14_NotFoundNotRetried ==
    \A j \in 1..Received :
        responses[j] = "404" =>
            /\ requests_sent = j
            /\ FetchEnded => Get(fetch_outcome) = [returned |-> FALSE, response |-> j,
                                                   error |-> "unavailable"]

---------------------------------------------------------------------------
(* fetch_game_data *)

GameEnded == game_pc \in {"returned", "raised", "responded"}

ExportAnswers == { game_log[k].answer : k \in { j \in Indices(game_log) :
                                                game_log[j].url # "game_page" } }

PageRequested == \E k \in Indices(game_log) : game_log[k].url = "game_page"

\* C15: when every request to the PGN export urls was answered 404,
\* fetch_game_data does not end before it has requested the game's HTML page
\* (the first of the fallback strategies).
C15_FallbackAfterNotFound ==
    (GameEnded /\ ExportAnswers = {"404"}) => PageRequested

\* C16: whatever HTTP statuses and connection failures the service answers
\* with, fetch_game_data returns or raises a ValueError, no other exception
\* type; get_game then answers 200 or 400.
C16_OnlyDomainErrors ==
    "timeout" \notin ExportAnswers =>
        /\ ~IsNone(game_error) => Get(game_error) = "ValueError"
        /\ ~IsNone(http_status) => Get(http_status) \in {200, 400}

---------------------------------------------------------------------------
(* parse_pgn_moves *)

Parsed == ~IsNone(parse_result)

\* C17: for the empty string and for every whitespace-only input
\* parse_pgn_moves raises nothing and returns the empty sequence.
C17_BlankInputIsEmpty ==
    (Parsed /\ Blank(pgn_text)) =>
        /\ IsNone(Get(parse_result).raised)
        /\ Get(parse_result).moves = <<>>

C17_Witness ==
    /\ Parsed
    /\ Blank(pgn_text)
    /\ Len(pgn_text) >= 2
    /\ ~IsNone(primary_error)
    /\ Get(parse_result).moves = <<>>

\* the tokens of a text that are neither blanks, headers nor comments
Core(pgn) == SelectSeq(pgn, LAMBDA tok : tok \notin {"ws", "tag", "eval"})

\* numbered legal moves, White's preceded by the move number, then at most
\* a result
RECURSIVE Numbered(_, _, _)
Numbered(core, i, board) ==
    IF i > Len(core) THEN TRUE
    ELSE IF core[i] = "result" THEN i = Len(core)
    ELSE IF WhiteToMove(board)
         THEN /\ core[i] = "num"
              /\ i + 1 <= Len(core)
              /\ Legal(board, core[i + 1])
              /\ Numbered(core, i + 2, Push(board, core[i + 1]))
         ELSE /\ Legal(board, core[i])
              /\ Numbered(core, i + 1, Push(board, core[i]))

\* every comment follows a move
CommentsAfterMoves(pgn) ==
    LET text == SelectSeq(pgn, LAMBDA tok : tok # "ws")
    IN  \A k \in 1..Len(text) :
            text[k] = "eval" => (k > 1 /\ text[k - 1] \in SanTokens)

StandardMoveText(pgn) == Numbered(Core(pgn), 1, StartBoard) /\ CommentsAfterMoves(pgn)

\* C18: for a PGN with standard move text, parse_pgn_moves returns the same
\* moves for the text with its {[%eval ...]} comments as for the text with
\* those comments removed.
C18_CommentsDoNotChangeMoves ==
    (Parsed /\ StandardMoveText(pgn_text)) =>
        Get(parse_result) = parse_pgn_moves(StripComments(pgn_text), primary_error)

C18_Witness ==
    /\ Parsed
    /\ pgn_text = SamplePgn
    /\ IsNone(primary_error)
    /\ Get(parse_result).moves = <<"e4", "e5", "e4">>

---------------------------------------------------------------------------
(* the eval-comment parsers *)

\* v multiplied by 100 and truncated to an integer
Centipawns(v) ==
    LET scale == Pow10(Len(v.frac))
    IN  Signed(v.neg, ((v.whole * scale + FracValue(v.frac)) * 100) \div scale)

\* what the specification prescribes for the annotation value v
Prescribed(v) ==
    IF v.kind = "mate" THEN PgnEval(None, Some(Signed(v.neg, v.whole)))
    ELSE PgnEval(Some(Centipawns(v)), None)

\* the call has been made and returned r, which is right for the value
ParsedAsPrescribed(r) ==
    \/ IsNone(r)
    \/ Get(eval_value).kind = "cp="
    \/ /\ ~IsNone(Get(r))
       /\ Get(Get(r)) = Prescribed(Get(eval_value))

\* C19: both eval-comment parsers turn `#N` into mate = N with cp null and
\* a number of pawns, with or without a decimal point, into cp = v * 100
\* truncated with mate null.
C19_EvalCommentParsers ==
    /\ ParsedAsPrescribed(stats_result)
    /\ ParsedAsPrescribed(parser_result)

---------------------------------------------------------------------------
(* the progress callback of analyze_game *)

\* the per-move positions that have resolved
Resolved == {i \in Tasks : phase[i] = "done"}

\* C20: with a progress callback and a game of N moves, the callback is
\* invoked once as each position resolves, null keys included: its
\* `completed` arguments are 1, 2, ... in invocation order, `total` is always
\* N and `percent` never decreases; when the fan-out has returned there were
\* exactly N invocations and the last one reported 100.
C20_ProgressCallback ==
    progress_callback =>
        /\ Len(progress_calls) = Cardinality(Resolved)
        /\ \A k \in Indices(progress_calls) :
               /\ progress_calls[k].completed = k
               /\ progress_calls[k].total = Len(moves)
               /\ k > 1 => progress_calls[k - 1].percent <= progress_calls[k].percent
        /\ pc = "done" =>
               /\ Len(progress_calls) = Len(moves)
               /\ moves # <<>> => progress_calls[Len(moves)].percent = 100

C20_Witness ==
    /\ progress_callback
    /\ pc = "done"
    /\ out_of_order
    /\ \E i \in Indices(fens_to_eval) : IsNone(fens_to_eval[i])
    /\ Len(progress_calls) = Len(moves)
    /\ Len(moves) >= 3
    /\ progress_calls[1].percent < 50

---------------------------------------------------------------------------
(* the aggregate counts and the evaluation chain of the report *)

\* the number of the first n Move Records of `player` with a category in cats
RECURSIVE Tally(_, _, _)
Tally(n, player, cats) ==
    IF n = 0 THEN 0
    ELSE Tally(n - 1, player, cats)
         + (IF evaluations[n].player = player /\ evaluations[n].category \in cats
            THEN 1 ELSE 0)

\* C21: in every report, each side's mistake count is the number of its Move
\* Records with category mistake or blunder, its blunder count the number
\* with category blunder (so blunders <= mistakes), and total_moves is the
\* number of Move Records.
C21_AggregateCounts ==
    pc = "done" =>
        LET r == Get(report)
            n == Len(evaluations)
        IN  /\ r.total_moves = n
            /\ r.white_mistakes = Tally(n, "white", {"mistake", "blunder"})
            /\ r.black_mistakes = Tally(n, "black", {"mistake", "blunder"})
            /\ r.white_blunders = Tally(n, "white", {"blunder"})
            /\ r.black_blunders = Tally(n, "black", {"blunder"})
            /\ r.white_blunders <= r.white_mistakes
            /\ r.black_blunders <= r.black_mistakes

C21_Witness ==
    /\ pc = "done"
    /\ Get(report).white_mistakes >= 1
    /\ Get(report).black_mistakes > Get(report).black_blunders
    /\ Get(report).black_blunders >= 1
    /\ Get(report).total_moves >= 4

\* C27: in every report the before_eval of the first Move Record is the
\* initial-position evaluation (or its placeholder) and the before_eval of
\* every later Move Record is the after_eval of the record before it; the
\* after_eval of a record is the result fetched for its own move, so a
\* skipped move contributes nothing to the chain.
C27_EvaluationChain ==
    pc = "done" =>
        \A k \in Indices(evaluations) :
            /\ evaluations[k].before_eval =
                   IF k = 1 THEN Get(initial_eval) ELSE evaluations[k - 1].after_eval
            /\ ~IsNone(fens_to_eval[evaluations[k].ply])
            /\ evaluations[k].after_eval = Get(results[evaluations[k].ply])

C27_Witness ==
    /\ pc = "done"
    /\ Len(evaluations) >= 3
    /\ 0 \in failed
    /\ \E k \in Indices(evaluations) :
          /\ k > 1
          /\ evaluations[k].ply > evaluations[k - 1].ply + 1
          /\ evaluations[k].before_eval # EmptyPlaceholder

---------------------------------------------------------------------------
(* termination of the fan-out *)

\* the steps a task still has to take, at most
Remaining(p) ==
    IF p = "waiting" THEN 4
    ELSE IF p = "fetching" THEN 3
    ELSE IF p = "sleeping" THEN 2
    ELSE IF p = "retrying" THEN 1
    ELSE 0

RECURSIVE RemainingUpTo(_)
RemainingUpTo(n) == IF n = 0 THEN 0 ELSE RemainingUpTo(n - 1) + Remaining(phase[n])

\* a bound on the number of steps analyze_game still takes
StepsLeft ==
    IF pc = "initial" THEN 4 * Len(moves) + 3
    ELSE IF pc = "prepared" THEN 4 * Len(moves) + 2
    ELSE IF pc = "gather" THEN RemainingUpTo(Len(phase)) + 1
    ELSE 0

\* analyze_game can take a step: it awaits the initial evaluation, starts the
\* fan-out, has a request in flight, can admit the fetch at the head of the
\* queue, or can return from gather
CanStep ==
    \/ pc \in {"initial", "prepared"}
    \/ /\ pc = "gather"
       /\ \/ InFlight # {}
          \/ waiters # <<>> /\ sem_value > 0
          \/ \A i \in Tasks : phase[i] = "done"

\* a fetch waits at the gate only while every permit is held by a fetch in
\* flight, and the task waiting longest is the next one admitted
NoStarvedFetch ==
    pc = "gather" =>
        /\ waiters # <<>> => (sem_value > 0 \/ InFlight # {})
        /\ \A i \in Tasks : phase[i] = "waiting" <=> \E k \in Indices(waiters) : waiters[k] = i
        /\ sem_value + Cardinality(InFlight) = max_concurrent(token)

\* analyze_game has returned: every fetch was admitted and has resolved and
\* every permit is back
ReturnedReport ==
    pc = "done" =>
        /\ ~IsNone(report)
        /\ \A i \in Tasks : phase[i] = "done" /\ ~IsNone(results[i])
        /\ \A i \in Tasks : ~IsNone(fens_to_eval[i]) => i \in fetched
        /\ waiters = <<>>
        /\ sem_value = max_concurrent(token)

\* C26: as long as requests return or fail and the scheduler is fair, every
\* per-move fetch is admitted through the gate and resolves, every permit is
\* released and analyze_game returns its report.  In finite-run form: until
\* the report is returned a step is always possible, every step brings the
\* return nearer, no fetch waits while a permit is free and nothing is in
\* flight, and at the return all fetches have resolved and all permits are
\* back.
C26_FanOutTerminates ==
    /\ [](pc # "done" => CanStep)
    /\ [][StepsLeft' < StepsLeft]_vars
    /\ []NoStarvedFetch
    /\ []ReturnedReport

C26_Witness ==
    /\ pc = "done"
    /\ ~token
    /\ Cardinality(fetched \ {0}) > max_concurrent(token)
    /\ sem_value = max_concurrent(token)
    /\ failed # {}

---------------------------------------------------------------------------
(* the export stage of fetch_game_data *)

UrlPosition(name) == CHOOSE i \in 1..Len(pgn_urls) : pgn_urls[i] = name

ExportLog == SelectSeq(game_log, LAMBDA e : e.url # "game_page")

RequestsTo(name) == Cardinality({k \in Indices(ExportLog) : ExportLog[k].url = name})

\* the request k failed in a way that ends the attempts on its url
FailedOnUrl(k) ==
    \/ ExportLog[k].answer \in {"403", "timeout"}
    \/ /\ ExportLog[k].answer = "connect"
       /\ k > 1
       /\ ExportLog[k - 1].url = ExportLog[k].url

\* C23: the export urls are tried in their listed order; a failure on a url
\* that is not the last (403, a connection failure after its retries, any
\* other exception) does not end the fetch but is followed by the next url;
\* an answer 200 is the last request; no url is requested more than twice.
C23_ExportStage ==
    LET n == Len(ExportLog)
    IN  /\ n > 0 => ExportLog[1].url = pgn_urls[1]
        /\ \A k \in 1..(n - 1) :
               /\ UrlPosition(ExportLog[k + 1].url) - UrlPosition(ExportLog[k].url) \in {0, 1}
               /\ ExportLog[k].answer \notin {"200", "200empty"}
               /\ FailedOnUrl(k) =>
                      UrlPosition(ExportLog[k + 1].url) = UrlPosition(ExportLog[k].url) + 1
        /\ (n > 0 /\ FailedOnUrl(n) /\ UrlPosition(ExportLog[n].url) < Len(pgn_urls)) =>
               /\ game_pc = "export"
               /\ url_index = UrlPosition(ExportLog[n].url) + 1
               /\ IsNone(game_error)
        /\ \A u \in 1..Len(pgn_urls) : RequestsTo(pgn_urls[u]) <= game_max_retries

C23_Witness ==
    /\ game_pc = "returned"
    /\ Len(ExportLog) = 5
    /\ ExportLog[1].answer = "403"
    /\ ExportLog[2].answer = "connect"
    /\ ExportLog[3].answer = "connect"
    /\ ExportLog[4].answer = "404"
    /\ ExportLog[5].answer = "200"
    /\ ExportLog[5].url = pgn_urls[3]

---------------------------------------------------------------------------
(* the two paths of parse_pgn_moves *)

PrimaryRaised == ~IsNone(primary_error)

\* C24: the regex fallback of parse_pgn_moves runs only if the primary
\* parser raises; whenever the primary parser completes without raising,
\* the returned sequence is the one of the primary path.
C24_FallbackOnlyAfterRaise ==
    Parsed =>
        /\ Get(parse_result).path = "regex" => PrimaryRaised
        /\ ~PrimaryRaised => Get(parse_result).path = "primary"

\* C24 as the code has it: the fallback runs if the primary parser raises
\* or reads no game (a blank text); whenever the primary parser reads a game
\* without raising, the returned sequence is the main line of that game.
C24_FallbackAfterRaiseOrNoGame ==
    Parsed =>
        /\ IsNone(Get(parse_result).raised)
        /\ Get(parse_result).path = "regex" <=> (PrimaryRaised \/ Blank(pgn_text))
        /\ (~PrimaryRaised /\ ~Blank(pgn_text)) =>
               /\ Get(parse_result).path = "primary"
               /\ Get(parse_result).moves = Mainline(pgn_text, 1, StartBoard)
        /\ Get(parse_result).path = "regex" => Get(parse_result).moves = RegexMoves(pgn_text)

C24_Witness ==
    /\ Parsed
    /\ ~PrimaryRaised
    /\ Get(parse_result).path = "primary"
    /\ Get(parse_result).moves = <<"e4">>
    /\ RegexMoves(pgn_text) = <<"e4", "e4">>


\* the two arguments carry centipawn values and no mate
StatsCpOnly ==
    /\ ~IsNone(stats_before_eval) /\ ~IsNone(stats_after_eval)
    /\ IsNone(Get(stats_before_eval).mate) /\ IsNone(Get(stats_after_eval).mate)
    /\ ~IsNone(Get(stats_before_eval).cp) /\ ~IsNone(Get(stats_after_eval).cp)

StatsDelta == Get(Get(stats_after_eval).cp) - Get(Get(stats_before_eval).cp)

\* C25: categorize_move_from_evals returns accurate, good, inaccuracy, mistake,
\* blunder for |after.cp - before.cp| < 50, < 100, < 200, < 300, >= 300; it
\* returns accurate whenever an evaluation is missing, lacks cp or carries a
\* mate; its category is never more severe than categorize_move's on that delta.
C25_StatsCategorizer ==
    ~IsNone(stats_category) =>
        LET r == Get(stats_category)
        IN  IF ~StatsCpOnly THEN r = "accurate"
            ELSE LET m == IF StatsDelta < 0 THEN 0 - StatsDelta ELSE StatsDelta
                 IN  /\ (m < 50) <=> (r = "accurate")
                     /\ (50 <= m /\ m < 100) <=> (r = "good")
                     /\ (100 <= m /\ m < 200) <=> (r = "inaccuracy")
                     /\ (200 <= m /\ m < 300) <=> (r = "mistake")
                     /\ (300 <= m) <=> (r = "blunder")
                     /\ Severity(r) <= Severity(categorize_move(Some(StatsDelta), None))

\* a delta of exactly 100: inaccuracy here, mistake for categorize_move
C25_Witness ==
    /\ StatsCpOnly
    /\ StatsDelta = 100
    /\ stats_category = Some("inaccuracy")
    /\ categorize_move(Some(StatsDelta), None) = "mistake"



\* C28: the (delta_cp, delta_mate) GET /api/eval/{game_id}/{ply} reports equals
\* what calculate_evaluation_delta returns for the same before and after
\* evaluations and the same mover colour, whichever of cp and mate are present.
C28_EndpointAgreesWithCalculator ==
    (~IsNone(delta) /\ ~IsNone(endpoint_delta)) => Get(endpoint_delta) = Get(delta)



\* a research request that has been answered
Answered(p) == callers[p].kind = "research" /\ callers[p].pc = "done"

\* the failures after which the side channel returns no url
FatalFailures ==
    {"library", "client", "session", "handshake", "navigate_absent", "list_tools", "navigate"}

ToolCallPositions == {"list_tools", "tabs", "navigate", "paste", "final_tabs"}

HandshakeOk(session, hs) == ~IsNone(session) /\ hs[Get(session)] = "ok"

\* C29: under every interleaving of initialize_mcp_session calls and research
\* requests, a caller obtains a session (get_mcp_session() non-None, or
\* initialize_mcp_session() returning True) only after that session's
\* initialize() handshake has completed successfully, and no request awaits a
\* tool call on a session whose handshake is in progress or has failed.
C29_SessionOnlyAfterHandshake ==
    [][\A p \in Callers :
          /\ (IsNone(callers[p].session) /\ ~IsNone(callers'[p].session))
                => HandshakeOk(callers'[p].session, handshake')
          /\ (/\ callers[p].kind = "initialize"
              /\ IsNone(callers[p].result)
              /\ callers'[p].result = Some(TRUE))
                => HandshakeOk(mcp_session', handshake')
          /\ callers'[p].pc \in ToolCallPositions
                => HandshakeOk(callers'[p].session, handshake')]_vars

\* C30: with the library available, when initialize_mcp_session fails at the
\* stdio client, at the ClientSession or at the handshake, then after it has
\* returned False (no other caller having started) _mcp_session,
\* _mcp_session_context, _mcp_read_write and _mcp_client_context are None and
\* _mcp_initialized is False.
C30_FailedInitializeResets ==
    \A p \in Callers :
        (/\ callers[p].kind = "initialize"
         /\ callers[p].pc = "done"
         /\ callers[p].result = Some(FALSE)
         /\ callers[p].failure \cap {"client", "session", "handshake"} # {}
         /\ \A q \in Callers \ {p} : callers[q].pc = "start")
        => /\ mcp_session = None
           /\ mcp_session_context = None
           /\ mcp_read_write = None
           /\ mcp_client_context = None
           /\ mcp_initialized = FALSE


===========================================================================
